---- MODULE Spec2Model ----
(***************************************************************************)
(* The BlogPost services of the FastAPI course:                            *)
(*   09-Error_Handling/app/main.py   posts in a module-level dict          *)
(*   06-DB_SQLAlchemy/app/main.py    posts in a SQLite table (async)       *)
(*   04-Pydantic/app/main.py         posts in a SQLite table (sync)        *)
(* and the other services of the course, each under a specification of     *)
(* its own.                                                                *)
(* One behaviour runs one of the applications; every action is one         *)
(* request handled from its arrival to its answer.  A handler is an        *)
(* operator from the store it finds to the store it leaves and its answer. *)
(*                                                                         *)
(* Python values are tuples: a str is the tuple of its characters, None    *)
(* and the marker of a field the request body does not carry are           *)
(* one-element tuples that are no str.  The clock ticks once per request:  *)
(* datetime.now() is the number of requests answered so far.               *)
(***************************************************************************)
EXTENDS Integers, Sequences, FiniteSets, TLC

VARIABLES
    app,        \* the application that runs: "09", "06" or "04"
    posts_db,   \* 09: posts_db, the dict of post dicts by id
    counter,    \* 09: counter, the id the next post gets
    posts_06,   \* 06: the rows of table posts by primary key
    posts_04,   \* 04: the rows of table posts by primary key
    request,    \* the endpoint and path parameter of the last request
    response,   \* the status code and detail of its answer
    handled,    \* the number of requests answered
    db_Blog,            \* 06-Pydantic_FastAPI_Blog: db, the dicts users, posts, comments
    fake_users_db,      \* 04-Pydantic_Basics: fake_users_db
    fake_posts_db,      \* 04-Pydantic_Basics: fake_posts_db
    fake_comments_db,   \* 04-Pydantic_Basics: fake_comments_db
    books_db,           \* 05-Error_Handling: books_db, the dict of book dicts by id
    book_id_counter,    \* 05-Error_Handling: book_id_counter, the id the next book gets
    users_db,           \* 06-Error_Handling: users_db, the list of user dicts
    user_id_counter,    \* 06-Error_Handling: user_id_counter, the id the next user gets
    users_07,           \* 07_SQLModel: the rows of table users by primary key
    pc,                 \* sessions: where each client's request stands
    calls,              \* sessions: the request each client has sent
    db_session,         \* sessions: the session get_db / get_session made for it
    open_sessions,      \* sessions: the sessions that are open
    pending,            \* sessions: the answer the request is about to get
    serving,            \* lifespan services: the application has started and takes requests
    created,            \* lifespan services: create_db_and_tables has run to completion
    tables,             \* lifespan services: the database file holds the tables
    rows,               \* lifespan services: the rows of the table the handlers use
    videos,             \* 02-Path_Params: videos, the dict of Video objects by id
    tasks,              \* requests in progress: the request each client has in progress
    issued,             \* 09 event loop: the ids create_post has given so far
    posts_07,           \* 07_SQLModel: table posts, the rows by id
    comments_07,        \* 07_SQLModel: table comments, the rows by id
    uuids               \* 07_SQLModel: the number of ids uuid4 has given to posts and comments

\* the state of the BlogPost services (09-Error_Handling, 06-DB_SQLAlchemy, 04-Pydantic)
blogpost_vars == <<posts_db, counter, posts_06, posts_04>>
\* the state of the User/Post/Comment blog services
blog_vars == <<db_Blog, fake_users_db, fake_posts_db, fake_comments_db>>

\* the state of the Library service
library_vars == <<books_db, book_id_counter>>

\* the state of the User Registration service
registration_vars == <<users_db, user_id_counter>>

\* the state of the SQLModel blog service
sqlmodel_vars == <<users_07>>

\* the sessions of the requests in progress
session_vars == <<pc, calls, db_session, open_sessions, pending>>
\* the state of the SQLModel services that define a lifespan function
startup_vars == <<serving, created, tables, rows>>
\* the state of the video service
video_vars == <<videos>>
\* the requests in progress together: in the event loop of 09-Error_Handling, in the worker threads of 04-Pydantic and 07_SQLModel
loop_vars == <<tasks, issued>>
\* the posts and comments of the SQLModel blog service
sqlblog_vars == <<posts_07, comments_07, uuids>>

\* what a request to one service leaves alone: the state of the others
outside_blogpost ==
    <<blog_vars, library_vars, registration_vars, sqlmodel_vars, session_vars,
      startup_vars, video_vars, loop_vars, sqlblog_vars>>
outside_blog ==
    <<blogpost_vars, library_vars, registration_vars, sqlmodel_vars, session_vars,
      startup_vars, video_vars, loop_vars, sqlblog_vars>>
outside_library ==
    <<blogpost_vars, blog_vars, registration_vars, sqlmodel_vars, session_vars,
      startup_vars, video_vars, loop_vars, sqlblog_vars>>
outside_registration ==
    <<blogpost_vars, blog_vars, library_vars, sqlmodel_vars, session_vars,
      startup_vars, video_vars, loop_vars, sqlblog_vars>>
outside_sqlmodel ==
    <<blogpost_vars, blog_vars, library_vars, registration_vars, session_vars,
      startup_vars, video_vars, loop_vars, sqlblog_vars>>
outside_startup ==
    <<blogpost_vars, blog_vars, library_vars, registration_vars, sqlmodel_vars,
      session_vars, video_vars, loop_vars, sqlblog_vars>>
outside_video ==
    <<blogpost_vars, blog_vars, library_vars, registration_vars, sqlmodel_vars,
      session_vars, startup_vars, loop_vars, sqlblog_vars>>
outside_sqlblog ==
    <<blogpost_vars, blog_vars, library_vars, registration_vars, sqlmodel_vars,
      session_vars, startup_vars, video_vars, loop_vars>>
\* what a request in the event loop of 09-Error_Handling leaves alone
outside_loop ==
    <<posts_06, posts_04, blog_vars, library_vars, registration_vars, sqlmodel_vars,
      session_vars, startup_vars, video_vars, sqlblog_vars>>
\* what a request in a worker thread of 04-Pydantic leaves alone
outside_workers_04 ==
    <<posts_db, counter, posts_06, issued, blog_vars, library_vars,
      registration_vars, sqlmodel_vars, session_vars, startup_vars, video_vars,
      sqlblog_vars>>
\* what a request in a worker thread of 07_SQLModel leaves alone
outside_workers_07 ==
    <<issued, blogpost_vars, blog_vars, library_vars, registration_vars,
      session_vars, startup_vars, video_vars, sqlblog_vars>>
\* the stores no session of 06-DB_SQLAlchemy, 04-Pydantic or 07_SQLModel reaches
outside_sessions ==
    <<posts_db, counter, blog_vars, library_vars, registration_vars, startup_vars,
      video_vars, loop_vars, sqlblog_vars>>

vars ==
    <<app, blogpost_vars, blog_vars, library_vars, registration_vars, sqlmodel_vars,
      session_vars, startup_vars, video_vars, loop_vars, sqlblog_vars, request,
      response, handled>>

----------------------------------------------------------------------------
(* Bounds of the model *)

\* create_post is not run once `counter` (09) or the next row id (06, 04) is above this
MaxCounter == 2
\* get_post is not run on a post whose view counter has reached this
MaxViews == 1
\* the number of requests one behaviour sends
MaxRequests == 4

----------------------------------------------------------------------------
(* Python values *)

None == <<"None">>
Unset == <<"Unset">>
NoneId == -1

DRAFT == <<"d", "r", "a", "f", "t">>
PUBLISHED == <<"p", "u", "b", "l", "i", "s", "h", "e", "d">>
ARCHIVED == <<"a", "r", "c", "h", "i", "v", "e", "d">>
PostStatus == {DRAFT, PUBLISHED, ARCHIVED}

Repeat(c, n) == [i \in 1..n |-> c]

UpperCase == <<"A", "B", "C", "D", "E", "F", "G", "H", "I", "J", "K", "L", "M",
               "N", "O", "P", "Q", "R", "S", "T", "U", "V", "W", "X", "Y", "Z">>
LowerCase == <<"a", "b", "c", "d", "e", "f", "g", "h", "i", "j", "k", "l", "m",
               "n", "o", "p", "q", "r", "s", "t", "u", "v", "w", "x", "y", "z">>

\* the lower-case letter of every upper-case letter
ToLower == [c \in {UpperCase[i] : i \in 1..Len(UpperCase)} |->
              LowerCase[CHOOSE i \in 1..Len(UpperCase) : UpperCase[i] = c]]

\* str.lower() on one character
lower_char(c) == IF c \in DOMAIN ToLower THEN ToLower[c] ELSE c

\* str.lower()
lower(s) == [i \in 1..Len(s) |-> lower_char(s[i])]

\* bool(v) of an Optional[str] or Optional[PostStatus]
Truthy(v) == v # None /\ v # <<>>

\* the value an attribute of a request model has: the default None when the body does not carry it
Attr(body, f) == IF body[f] = Unset THEN None ELSE body[f]

\* the keys of a dict in iteration order; posts are inserted with increasing ids
RECURSIVE KeysInOrder(_)
KeysInOrder(S) ==
    IF S = {} THEN <<>>
    ELSE LET m == CHOOSE k \in S : \A j \in S : k <= j
         IN <<m>> \o KeysInOrder(S \ {m})

----------------------------------------------------------------------------
(* Request bodies the model sends *)

Hello == <<"H", "e", "l", "l", "o">>
HELLO == <<"H", "E", "L", "L", "O">>
H_llo == <<"H", "_", "l", "l", "o">>
Hi == <<"H", "i">>
LongContent == Repeat("x", 50)
OtherContent == Repeat("y", 50)
NewContent == <<"N", "e", "w">>
Ann == <<"A", "n", "n">>
Bob == <<"B", "o", "b">>
Bogus == <<"b", "o", "g", "u", "s">>

Titles == {Hello, HELLO, H_llo}
Authors == {Ann}

\* JSON bodies of POST /posts/: every title with every status or none, and bodies
\* with a short title, a short content, a null title
CreateBodies ==
    [title : Titles, content : {LongContent}, author : Authors,
     status : PostStatus \cup {Unset}]
    \cup [title : {Hi, None}, content : {LongContent}, author : Authors, status : {Unset}]
    \cup [title : {Hello}, content : {NewContent}, author : Authors, status : {Unset}]

\* JSON bodies of PATCH /posts/{post_id}: every choice of title and status (absent, null,
\* a value), and bodies with a content, an author, a short title, an unknown status
UpdateBodies ==
    [title : Titles \cup {None, Unset}, content : {Unset},
     author : {Unset}, status : PostStatus \cup {None, Unset}]
    \cup [title : {HELLO, Unset}, content : {OtherContent}, author : {Unset},
          status : {PUBLISHED, Unset}]
    \cup [title : {Unset}, content : {Unset}, author : {Bob},
          status : {PUBLISHED, Unset}]
    \cup [title : {Hi}, content : {Unset}, author : {Unset}, status : {Unset}]
    \cup [title : {Unset}, content : {Unset}, author : {Unset}, status : {Bogus}]

\* the bodies sent to 04-Pydantic, whose models declare no constraint: titles are matched
\* exactly, a status in POST's body is ignored, PATCH takes an author
CreateBodies_04 ==
    [title : {Hello, HELLO, None}, content : {LongContent}, author : Authors,
     status : {Unset}]
    \cup [title : {Hello}, content : {LongContent}, author : Authors, status : {ARCHIVED}]

UpdateBodies_04 ==
    [title : {Hello, Unset}, content : {OtherContent, Unset}, author : {Unset},
     status : PostStatus \cup {None, Unset}]
    \cup [title : {Unset, None}, content : {Unset}, author : {Bob}, status : {Unset}]
    \cup [title : {Unset}, content : {Unset}, author : {Unset}, status : {Bogus}]

\* query parameters of GET /posts/: the defaults skip 0, limit 10 and no status, and others
Skips == {0, 1}
Limits == {1, 10}
StatusFilters == {None, DRAFT, ARCHIVED}

\* path parameters post_id
PostIds == 1..MaxCounter

\* the client has a request left to send
CanSend == handled < MaxRequests

\* the client sends one more request: the last one is answered
Sent == CanSend /\ handled' = handled + 1

\* datetime.now(), datetime.utcnow()
now == handled

----------------------------------------------------------------------------
(* Responses *)

NoDetail == <<>>
PostNotFoundException == [status_code |-> 404, detail |-> <<"Post not found">>]
PostTitleExistsException ==
    [status_code |-> 400, detail |-> <<"A post with this title already exists">>]
InvalidStatusTransitionException(current_status, new_status) ==
    [status_code |-> 400,
     detail |-> <<"Cannot transition from", current_status, "to", new_status>>]
\* FastAPI's answer to a body that does not validate against the request model
RequestValidationError == [status_code |-> 422, detail |-> <<"validation error">>]
\* Starlette's answer to an exception no handler catches
InternalServerError == [status_code |-> 500, detail |-> <<"Internal Server Error">>]
Answer(code) == [status_code |-> code, detail |-> NoDetail]

----------------------------------------------------------------------------
(* 09-Error_Handling/app/main.py *)

TitleMinLength == 5
TitleMaxLength == 100
ContentMinLength == 50
AuthorMinLength == 2
AuthorMaxLength == 50

ValidTitle(t) == t # None /\ Len(t) >= TitleMinLength /\ Len(t) <= TitleMaxLength
ValidContent(c) == c # None /\ Len(c) >= ContentMinLength
ValidAuthor(a) == a # None /\ Len(a) >= AuthorMinLength /\ Len(a) <= AuthorMaxLength

\* a body validates as PostCreate
IsPostCreate(body) ==
    /\ ValidTitle(body.title)
    /\ ValidContent(body.content)
    /\ ValidAuthor(body.author)
    /\ body.status \in PostStatus \cup {Unset}

\* the PostCreate model of a body: the fields with their defaults
PostCreate(body) ==
    [title |-> body.title, content |-> body.content, author |-> body.author,
     status |-> IF body.status = Unset THEN DRAFT ELSE body.status]

\* a body validates as PostUpdate; a key PostUpdate does not declare is ignored
IsPostUpdate(body) ==
    /\ body.title \in {Unset, None} \/ ValidTitle(body.title)
    /\ body.content \in {Unset, None} \/ ValidContent(body.content)
    /\ body.status \in PostStatus \cup {Unset, None}

\* the fields PostUpdate declares
PostUpdateFields == {"title", "content", "status"}

\* update_data as it would be if PostUpdate declared author, as 04's PostUpdate does
update_data_with_author(body) == {f \in PostUpdateFields \cup {"author"} : body[f] # Unset}

\* post_update.dict(exclude_unset=True): the declared fields the body carries
update_data(body) == {f \in PostUpdateFields : body[f] # Unset}

\* a stored post validates as the response model Post
IsPost(post) ==
    /\ ValidTitle(post.title)
    /\ ValidContent(post.content)
    /\ ValidAuthor(post.author)
    /\ post.status \in PostStatus

\* check_title_exists: any() over the dict's items, raising where a stored title is None
RECURSIVE any_title_09(_, _, _, _)
any_title_09(db, keys, title, exclude_id) ==
    IF keys = <<>> THEN "False"
    ELSE LET post_id == Head(keys)
         IN  IF post_id = exclude_id THEN any_title_09(db, Tail(keys), title, exclude_id)
             ELSE IF db[post_id].title = None THEN "AttributeError"
             ELSE IF lower(db[post_id].title) = lower(title) THEN "True"
             ELSE any_title_09(db, Tail(keys), title, exclude_id)

check_title_exists_09(db, title, exclude_id) ==
    any_title_09(db, KeysInOrder(DOMAIN db), title, exclude_id)

\* create_post as it would be if the id were taken from the size of posts_db
create_post_len(db, ctr, t, body) ==
    LET post == PostCreate(body)
        exists == check_title_exists_09(db, post.title, NoneId)
        id == Cardinality(DOMAIN db) + 1
        post_dict == [id |-> id, title |-> post.title, content |-> post.content,
                      author |-> post.author, status |-> post.status,
                      created_at |-> t, updated_at |-> t, views |-> 0]
    IN  CASE exists = "AttributeError" ->
               [db |-> db, counter |-> ctr, response |-> InternalServerError]
          [] exists = "True" ->
               [db |-> db, counter |-> ctr, response |-> PostTitleExistsException]
          [] OTHER ->
               [db |-> (id :> post_dict) @@ db, counter |-> ctr + 1,
                response |-> Answer(201)]

\* create_post(post) run on posts_db = db, counter = ctr at time t
create_post_09(db, ctr, t, body) ==
    LET post == PostCreate(body)
        exists == check_title_exists_09(db, post.title, NoneId)
        post_dict == [id |-> ctr, title |-> post.title, content |-> post.content,
                      author |-> post.author, status |-> post.status,
                      created_at |-> t, updated_at |-> t, views |-> 0]
    IN  CASE exists = "AttributeError" ->
               [db |-> db, counter |-> ctr, response |-> InternalServerError]
          [] exists = "True" ->
               [db |-> db, counter |-> ctr, response |-> PostTitleExistsException]
          [] OTHER ->
               [db |-> (ctr :> post_dict) @@ db, counter |-> ctr + 1,
                response |-> Answer(201)]

\* get_post(post_id); the answer is the post validated as the response model
get_post_09(db, post_id) ==
    IF post_id \notin DOMAIN db
    THEN [db |-> db, response |-> PostNotFoundException]
    ELSE LET viewed == [db EXCEPT ![post_id].views = @ + 1]
         IN  [db |-> viewed,
              response |-> IF IsPost(viewed[post_id]) THEN Answer(200)
                           ELSE InternalServerError]

\* update_post(post_id, post_update) at time t
update_post_09(db, t, post_id, body) ==
    IF post_id \notin DOMAIN db
    THEN [db |-> db, response |-> PostNotFoundException]
    ELSE LET post == db[post_id]
             title == Attr(body, "title")
             status == Attr(body, "status")
             exists == IF Truthy(title) THEN check_title_exists_09(db, title, post_id)
                       ELSE "False"
             updated == [f \in DOMAIN post |->
                           IF f \in update_data(body) THEN body[f]
                           ELSE IF f = "updated_at" THEN t ELSE post[f]]
         IN  CASE exists = "AttributeError" ->
                    [db |-> db, response |-> InternalServerError]
               [] exists = "True" ->
                    [db |-> db, response |-> PostTitleExistsException]
               [] exists = "False" /\ Truthy(status) /\ post.status = None ->
                    \* PostStatus(None) raises ValueError
                    [db |-> db, response |-> InternalServerError]
               [] exists = "False" /\ Truthy(status) /\ post.status = ARCHIVED
                     /\ status # ARCHIVED ->
                    [db |-> db,
                     response |-> InvalidStatusTransitionException(post.status, status)]
               [] OTHER ->
                    [db |-> [db EXCEPT ![post_id] = updated],
                     response |-> IF IsPost(updated) THEN Answer(200)
                                  ELSE InternalServerError]

\* delete_post as it would be with posts_db.pop(post_id, None) in place of the lookup
delete_post_pop(db, post_id) ==
    [db |-> [k \in DOMAIN db \ {post_id} |-> db[k]], response |-> Answer(204)]

\* delete_post(post_id)
delete_post_09(db, post_id) ==
    IF post_id \notin DOMAIN db
    THEN [db |-> db, response |-> PostNotFoundException]
    ELSE [db |-> [k \in DOMAIN db \ {post_id} |-> db[k]], response |-> Answer(204)]

\* the values of a dict in iteration order
values(db) == [i \in 1..Cardinality(DOMAIN db) |-> db[KeysInOrder(DOMAIN db)[i]]]

\* posts[skip: skip + limit] for skip, limit >= 0
slice(posts, skip, limit) ==
    SubSeq(posts, skip + 1, IF skip + limit < Len(posts) THEN skip + limit ELSE Len(posts))

\* list_posts(skip, limit, status); in its body `status` is the parameter, not the module
\* fastapi.status, so status.HTTP_204_NO_CONTENT raises AttributeError
list_posts_09(db, skip, limit, status) ==
    LET all == values(db)
        posts == IF Truthy(status) THEN SelectSeq(all, LAMBDA post : post.status = status)
                 ELSE all
        page == slice(posts, skip, limit)
    IN  IF posts = <<>>
        THEN [db |-> db, response |-> InternalServerError, posts |-> <<>>]
        ELSE IF \A i \in 1..Len(page) : IsPost(page[i])
        THEN [db |-> db, response |-> Answer(200), posts |-> page]
        ELSE [db |-> db, response |-> InternalServerError, posts |-> <<>>]

\* POST /posts/: a body that is no PostCreate is answered 422 and create_post is not run
POST_posts_09(body) ==
    /\ app = "09"
    /\ Sent
    /\ request' = [endpoint |-> "create_post", post_id |-> NoneId]
    /\ IF ~IsPostCreate(body)
       THEN response' = RequestValidationError /\ UNCHANGED <<posts_db, counter>>
       ELSE LET r == create_post_09(posts_db, counter, now, body)
            IN  /\ r.counter <= MaxCounter + 1
                /\ posts_db' = r.db
                /\ counter' = r.counter
                /\ response' = r.response
    /\ UNCHANGED <<app, posts_06, posts_04>>
    /\ UNCHANGED outside_blogpost

\* GET /posts/
GET_posts_09(skip, limit, status) ==
    /\ app = "09"
    /\ Sent
    /\ request' = [endpoint |-> "list_posts", post_id |-> NoneId]
    /\ LET r == list_posts_09(posts_db, skip, limit, status)
       IN  posts_db' = r.db /\ response' = r.response
    /\ UNCHANGED <<app, counter, posts_06, posts_04>>
    /\ UNCHANGED outside_blogpost

\* GET /posts/{post_id}
GET_post_09(post_id) ==
    /\ app = "09"
    /\ Sent
    /\ request' = [endpoint |-> "get_post", post_id |-> post_id]
    /\ LET r == get_post_09(posts_db, post_id)
       IN  /\ \A k \in DOMAIN r.db : r.db[k].views <= MaxViews
           /\ posts_db' = r.db
           /\ response' = r.response
    /\ UNCHANGED <<app, counter, posts_06, posts_04>>
    /\ UNCHANGED outside_blogpost

\* PATCH /posts/{post_id}: a body that is no PostUpdate is answered 422
PATCH_post_09(post_id, body) ==
    /\ app = "09"
    /\ Sent
    /\ request' = [endpoint |-> "update_post", post_id |-> post_id]
    /\ IF ~IsPostUpdate(body)
       THEN response' = RequestValidationError /\ UNCHANGED posts_db
       ELSE LET r == update_post_09(posts_db, now, post_id, body)
            IN  posts_db' = r.db /\ response' = r.response
    /\ UNCHANGED <<app, counter, posts_06, posts_04>>
    /\ UNCHANGED outside_blogpost

\* DELETE /posts/{post_id}
DELETE_post_09(post_id) ==
    /\ app = "09"
    /\ Sent
    /\ request' = [endpoint |-> "delete_post", post_id |-> post_id]
    /\ LET r == delete_post_09(posts_db, post_id)
       IN  posts_db' = r.db /\ response' = r.response
    /\ UNCHANGED <<app, counter, posts_06, posts_04>>
    /\ UNCHANGED outside_blogpost

Next_09 ==
    \/ \E body \in CreateBodies : POST_posts_09(body)
    \/ \E post_id \in PostIds : GET_post_09(post_id)
    \/ \E post_id \in PostIds, body \in UpdateBodies : PATCH_post_09(post_id, body)
    \/ \E post_id \in PostIds : DELETE_post_09(post_id)
    \/ \E skip \in Skips, limit \in Limits, status \in StatusFilters :
          GET_posts_09(skip, limit, status)

----------------------------------------------------------------------------
(* 06-DB_SQLAlchemy/app/main.py; its PostCreate, PostUpdate and Post declare the  *)
(* fields and constraints of 09's                                                  *)

\* SQL's p LIKE s on lower-cased operands: '%' matches any run of characters, '_' any one
RECURSIVE like(_, _)
like(s, p) ==
    IF p = <<>> THEN s = <<>>
    ELSE IF Head(p) = "%" THEN like(s, Tail(p)) \/ (s # <<>> /\ like(Tail(s), p))
    ELSE /\ s # <<>>
         /\ Head(p) = "_" \/ Head(p) = Head(s)
         /\ like(Tail(s), Tail(p))

\* BlogPost.title.ilike(title): lower(posts.title) LIKE lower(:title), never true of NULL
ilike(column, pattern) == column # None /\ like(lower(column), lower(pattern))

\* the id SQLite gives a row inserted without one: one more than the largest in the table
next_rowid(table) ==
    IF DOMAIN table = {} THEN 1
    ELSE (CHOOSE k \in DOMAIN table : \A j \in DOMAIN table : j <= k) + 1

\* the constraints of table posts: title, content, author NOT NULL, title UNIQUE
IntegrityError_06(table) ==
    \/ \E k \in DOMAIN table :
          table[k].title = None \/ table[k].content = None \/ table[k].author = None
    \/ \E k, j \in DOMAIN table : k # j /\ table[k].title = table[j].title

check_title_exists_06(table, title, exclude_id) ==
    \E k \in DOMAIN table :
        /\ ilike(table[k].title, title)
        /\ (exclude_id # NoneId /\ exclude_id # 0) => k # exclude_id

\* create_post(post, db) run on table posts = table at time t
create_post_06(table, t, body) ==
    LET post == PostCreate(body)
        id == next_rowid(table)
        db_post == [id |-> id, title |-> post.title, content |-> post.content,
                    author |-> post.author, status |-> post.status,
                    created_at |-> t, updated_at |-> t, views |-> 0]
        added == (id :> db_post) @@ table
    IN  IF check_title_exists_06(table, post.title, NoneId)
        THEN [db |-> table, response |-> PostTitleExistsException]
        ELSE IF IntegrityError_06(added)
        THEN [db |-> table, response |-> InternalServerError]
        ELSE [db |-> added, response |-> Answer(201)]

\* get_post(post_id, db); the commit's UPDATE of views sets updated_at as well
get_post_06(table, t, post_id) ==
    IF post_id \notin DOMAIN table
    THEN [db |-> table, response |-> PostNotFoundException]
    ELSE [db |-> [table EXCEPT ![post_id].views = @ + 1, ![post_id].updated_at = t],
          response |-> IF IsPost(table[post_id]) THEN Answer(200)
                       ELSE InternalServerError]

\* update_post(post_id, post_update, db)
update_post_06(table, t, post_id, body) ==
    IF post_id \notin DOMAIN table
    THEN [db |-> table, response |-> PostNotFoundException]
    ELSE LET post == table[post_id]
             title == Attr(body, "title")
             status == Attr(body, "status")
             set == [f \in DOMAIN post |->
                       IF f \in update_data(body) THEN body[f] ELSE post[f]]
             \* the flush emits an UPDATE, which sets updated_at, if a column changed
             updated == IF set = post THEN post ELSE [set EXCEPT !.updated_at = t]
             changed == [table EXCEPT ![post_id] = updated]
         IN  IF Truthy(title) /\ check_title_exists_06(table, title, post_id)
             THEN [db |-> table, response |-> PostTitleExistsException]
             ELSE IF Truthy(status) /\ post.status = ARCHIVED /\ status # ARCHIVED
             THEN [db |-> table,
                   response |-> InvalidStatusTransitionException(post.status, status)]
             ELSE IF IntegrityError_06(changed)
             THEN [db |-> table, response |-> InternalServerError]
             ELSE [db |-> changed,
                   response |-> IF IsPost(updated) THEN Answer(200)
                                ELSE InternalServerError]

\* delete_post(post_id, db)
delete_post_06(table, post_id) ==
    IF post_id \notin DOMAIN table
    THEN [db |-> table, response |-> PostNotFoundException]
    ELSE [db |-> [k \in DOMAIN table \ {post_id} |-> table[k]], response |-> Answer(204)]

\* list_posts(skip, limit, status, db): rows come in rowid order; here too `status` is the
\* parameter where status.HTTP_204_NO_CONTENT is read
list_posts_06(table, skip, limit, status) ==
    LET all == values(table)
        matching == IF Truthy(status)
                    THEN SelectSeq(all, LAMBDA post : post.status = status)
                    ELSE all
        posts == slice(matching, skip, limit)
    IN  IF posts = <<>>
        THEN [db |-> table, response |-> InternalServerError, posts |-> <<>>]
        ELSE IF \A i \in 1..Len(posts) : IsPost(posts[i])
        THEN [db |-> table, response |-> Answer(200), posts |-> posts]
        ELSE [db |-> table, response |-> InternalServerError, posts |-> <<>>]

\* POST /posts/
POST_posts_06(body) ==
    /\ app = "06"
    /\ Sent
    /\ request' = [endpoint |-> "create_post", post_id |-> NoneId]
    /\ IF ~IsPostCreate(body)
       THEN response' = RequestValidationError /\ UNCHANGED posts_06
       ELSE LET r == create_post_06(posts_06, now, body)
            IN  /\ \A k \in DOMAIN r.db : k <= MaxCounter
                /\ posts_06' = r.db
                /\ response' = r.response
    /\ UNCHANGED <<app, posts_db, counter, posts_04>>
    /\ UNCHANGED outside_blogpost

\* GET /posts/
GET_posts_06(skip, limit, status) ==
    /\ app = "06"
    /\ Sent
    /\ request' = [endpoint |-> "list_posts", post_id |-> NoneId]
    /\ LET r == list_posts_06(posts_06, skip, limit, status)
       IN  posts_06' = r.db /\ response' = r.response
    /\ UNCHANGED <<app, posts_db, counter, posts_04>>
    /\ UNCHANGED outside_blogpost

\* GET /posts/{post_id}
GET_post_06(post_id) ==
    /\ app = "06"
    /\ Sent
    /\ request' = [endpoint |-> "get_post", post_id |-> post_id]
    /\ LET r == get_post_06(posts_06, now, post_id)
       IN  /\ \A k \in DOMAIN r.db : r.db[k].views <= MaxViews
           /\ posts_06' = r.db
           /\ response' = r.response
    /\ UNCHANGED <<app, posts_db, counter, posts_04>>
    /\ UNCHANGED outside_blogpost

\* PATCH /posts/{post_id}
PATCH_post_06(post_id, body) ==
    /\ app = "06"
    /\ Sent
    /\ request' = [endpoint |-> "update_post", post_id |-> post_id]
    /\ IF ~IsPostUpdate(body)
       THEN response' = RequestValidationError /\ UNCHANGED posts_06
       ELSE LET r == update_post_06(posts_06, now, post_id, body)
            IN  posts_06' = r.db /\ response' = r.response
    /\ UNCHANGED <<app, posts_db, counter, posts_04>>
    /\ UNCHANGED outside_blogpost

\* DELETE /posts/{post_id}
DELETE_post_06(post_id) ==
    /\ app = "06"
    /\ Sent
    /\ request' = [endpoint |-> "delete_post", post_id |-> post_id]
    /\ LET r == delete_post_06(posts_06, post_id)
       IN  posts_06' = r.db /\ response' = r.response
    /\ UNCHANGED <<app, posts_db, counter, posts_04>>
    /\ UNCHANGED outside_blogpost

Next_06 ==
    \/ \E body \in CreateBodies : POST_posts_06(body)
    \/ \E post_id \in PostIds : GET_post_06(post_id)
    \/ \E post_id \in PostIds, body \in UpdateBodies : PATCH_post_06(post_id, body)
    \/ \E post_id \in PostIds : DELETE_post_06(post_id)
    \/ \E skip \in Skips, limit \in Limits, status \in StatusFilters :
          GET_posts_06(skip, limit, status)

----------------------------------------------------------------------------
(* 04-Pydantic/app/main.py *)

\* a body validates as 04's PostCreate: title, content, author are str; other keys are ignored
IsPostCreate_04(body) ==
    body.title # None /\ body.content # None /\ body.author # None

\* a body validates as 04's PostUpdate
IsPostUpdate_04(body) ==
    body.status \in PostStatus \cup {Unset, None}

\* the fields 04's PostUpdate declares
PostUpdateFields_04 == {"title", "content", "author", "status"}

\* post_update.dict(exclude_unset=True)
update_data_04(body) == {f \in PostUpdateFields_04 : body[f] # Unset}

\* a row validates as 04's response model Post
IsPost_04(post) ==
    /\ post.title # None
    /\ post.content # None
    /\ post.author # None
    /\ post.status \in PostStatus

\* the constraint of 04's table posts: title UNIQUE (NULLs are distinct)
IntegrityError_04(table) ==
    \E k, j \in DOMAIN table :
        k # j /\ table[k].title # None /\ table[k].title = table[j].title

\* create_post(post, db): a post of the same title is looked up by equality
create_post_04(table, body) ==
    LET id == next_rowid(table)
        db_post == [id |-> id, title |-> body.title, content |-> body.content,
                    author |-> body.author, status |-> DRAFT]
        added == (id :> db_post) @@ table
    IN  IF \E k \in DOMAIN table : table[k].title = body.title
        THEN [db |-> table, response |-> PostTitleExistsException]
        ELSE IF IntegrityError_04(added)
        THEN [db |-> table, response |-> InternalServerError]
        ELSE [db |-> added, response |-> Answer(201)]

\* get_post(post_id, db)
get_post_04(table, post_id) ==
    [db |-> table,
     response |-> IF post_id \notin DOMAIN table THEN PostNotFoundException
                  ELSE IF IsPost_04(table[post_id]) THEN Answer(200)
                  ELSE InternalServerError]

\* update_post(post_id, post_update, db); the detail of its 400 is a constant
update_post_04(table, post_id, body) ==
    IF post_id \notin DOMAIN table
    THEN [db |-> table, response |-> PostNotFoundException]
    ELSE LET db_post == table[post_id]
             status == Attr(body, "status")
             updated == [f \in DOMAIN db_post |->
                           IF f \in update_data_04(body) THEN body[f] ELSE db_post[f]]
             changed == [table EXCEPT ![post_id] = updated]
         IN  IF Truthy(status) /\ db_post.status = ARCHIVED /\ status # ARCHIVED
             THEN [db |-> table,
                   response |-> InvalidStatusTransitionException(ARCHIVED, PUBLISHED)]
             ELSE IF IntegrityError_04(changed)
             THEN [db |-> table, response |-> InternalServerError]
             ELSE [db |-> changed,
                   response |-> IF IsPost_04(updated) THEN Answer(200)
                                ELSE InternalServerError]

\* delete_post(post_id, db)
delete_post_04(table, post_id) ==
    IF post_id \notin DOMAIN table
    THEN [db |-> table, response |-> PostNotFoundException]
    ELSE [db |-> [k \in DOMAIN table \ {post_id} |-> table[k]], response |-> Answer(204)]

\* POST /posts/
POST_posts_04(body) ==
    /\ app = "04"
    /\ Sent
    /\ request' = [endpoint |-> "create_post", post_id |-> NoneId]
    /\ IF ~IsPostCreate_04(body)
       THEN response' = RequestValidationError /\ UNCHANGED posts_04
       ELSE LET r == create_post_04(posts_04, body)
            IN  /\ \A k \in DOMAIN r.db : k <= MaxCounter
                /\ posts_04' = r.db
                /\ response' = r.response
    /\ UNCHANGED <<app, posts_db, counter, posts_06>>
    /\ UNCHANGED outside_blogpost

\* GET /posts/{post_id}
GET_post_04(post_id) ==
    /\ app = "04"
    /\ Sent
    /\ request' = [endpoint |-> "get_post", post_id |-> post_id]
    /\ LET r == get_post_04(posts_04, post_id)
       IN  posts_04' = r.db /\ response' = r.response
    /\ UNCHANGED <<app, posts_db, counter, posts_06>>
    /\ UNCHANGED outside_blogpost

\* PATCH /posts/{post_id}
PATCH_post_04(post_id, body) ==
    /\ app = "04"
    /\ Sent
    /\ request' = [endpoint |-> "update_post", post_id |-> post_id]
    /\ IF ~IsPostUpdate_04(body)
       THEN response' = RequestValidationError /\ UNCHANGED posts_04
       ELSE LET r == update_post_04(posts_04, post_id, body)
            IN  posts_04' = r.db /\ response' = r.response
    /\ UNCHANGED <<app, posts_db, counter, posts_06>>
    /\ UNCHANGED outside_blogpost

\* DELETE /posts/{post_id}
DELETE_post_04(post_id) ==
    /\ app = "04"
    /\ Sent
    /\ request' = [endpoint |-> "delete_post", post_id |-> post_id]
    /\ LET r == delete_post_04(posts_04, post_id)
       IN  posts_04' = r.db /\ response' = r.response
    /\ UNCHANGED <<app, posts_db, counter, posts_06>>
    /\ UNCHANGED outside_blogpost

Next_04 ==
    \/ \E body \in CreateBodies_04 : POST_posts_04(body)
    \/ \E post_id \in PostIds : GET_post_04(post_id)
    \/ \E post_id \in PostIds, body \in UpdateBodies_04 : PATCH_post_04(post_id, body)
    \/ \E post_id \in PostIds : DELETE_post_04(post_id)

----------------------------------------------------------------------------
(* 06-Pydantic_FastAPI_Blog/app/main.py (app "Blog") and                          *)
(* 04-Pydantic_Basics/app/main.py (app "Basics"): users, posts and comments in    *)
(* dicts.  A dict that a list or another dict holds is held by reference: the     *)
(* model holds its id.  The request and response models are declared in           *)
(* models.py, which is not among the sources: bodies are taken as validated, and  *)
(* what a handler returns may or may not validate as its response model.          *)

Email == <<"a", "@", "b">>

\* bodies of POST /users, of the posts and of the comments
UserBodies == [username : {Ann}, email : {Email}, full_name : {None}, bio : {None}]
PostBodies == [title : {Hello}, content : {NewContent}, published : {TRUE, FALSE}]
CommentBodies == [content : {Hi}]

\* the ids requests name: the ids uuid4 gives out in MaxRequests requests
Uuids == 1..MaxRequests

\* str(v) of a UUID v; the str of a str, as 04 takes its path and query parameters, is
\* that str
str(v) == <<"str", v>>

\* the three stores, empty
EmptyDb == [users |-> <<>>, posts |-> <<>>, comments |-> <<>>]

\* uuid4(): an id no stored user, post or comment has; nothing is ever removed
uuid4(d) ==
    Cardinality(DOMAIN d.users) + Cardinality(DOMAIN d.posts)
      + Cardinality(DOMAIN d.comments) + 1

HTTPException(status_code, detail) == [status_code |-> status_code, detail |-> <<detail>>]

\* the answer of a handler that returns: its value may fail the response model
Served(r) == IF r.status_code < 400 THEN {r, InternalServerError} ELSE {r}

\* 06: create_user(user) at time t
create_user_Blog(d, t, user) ==
    LET user_id == uuid4(d)
        new_user == [id |-> user_id, username |-> user.username, email |-> user.email,
                     full_name |-> user.full_name, bio |-> user.bio,
                     created_at |-> t, updated_at |-> None, is_active |-> TRUE,
                     posts |-> <<>>, comments |-> <<>>]
    IN  [db |-> [d EXCEPT !.users = (user_id :> new_user) @@ @],
         response |-> Answer(201)]

\* 06: create_post(user_id, post, current_user), after the dependency get_current_user
create_post_Blog(d, t, user_id, post) ==
    IF user_id \notin DOMAIN d.users
    THEN [db |-> d, response |-> HTTPException(404, "User not found")]
    ELSE LET post_id == uuid4(d)
             new_post == [id |-> post_id, title |-> post.title, content |-> post.content,
                          created_at |-> t, updated_at |-> None,
                          published |-> post.published, author_id |-> user_id,
                          author |-> user_id, comments |-> <<>>]
         IN  [db |-> [d EXCEPT !.posts = (post_id :> new_post) @@ @,
                               !.users[user_id].posts = Append(@, post_id)],
              response |-> Answer(200)]

\* create_comment as it would be if the comment were filed under the author of the post
create_comment_to_post_author(d, t, post_id, user_id, comment) ==
    IF user_id \notin DOMAIN d.users
    THEN [db |-> d, response |-> HTTPException(404, "User not found")]
    ELSE IF post_id \notin DOMAIN d.posts
    THEN [db |-> d, response |-> HTTPException(404, "Post not found")]
    ELSE LET comment_id == uuid4(d)
             new_comment == [id |-> comment_id, content |-> comment.content,
                             created_at |-> t, updated_at |-> None,
                             author_id |-> user_id, post_id |-> post_id,
                             author |-> user_id]
         IN  [db |-> [d EXCEPT !.comments = (comment_id :> new_comment) @@ @,
                               !.posts[post_id].comments = Append(@, comment_id),
                               !.users[d.posts[post_id].author_id].comments =
                                   Append(@, comment_id)],
              response |-> Answer(200)]

\* 06: create_comment(post_id, comment, current_user), after get_current_user(user_id)
create_comment_Blog(d, t, post_id, user_id, comment) ==
    IF user_id \notin DOMAIN d.users
    THEN [db |-> d, response |-> HTTPException(404, "User not found")]
    ELSE IF post_id \notin DOMAIN d.posts
    THEN [db |-> d, response |-> HTTPException(404, "Post not found")]
    ELSE LET comment_id == uuid4(d)
             current_user == d.users[user_id]
             new_comment == [id |-> comment_id, content |-> comment.content,
                             created_at |-> t, updated_at |-> None,
                             author_id |-> current_user.id, post_id |-> post_id,
                             author |-> user_id]
         IN  [db |-> [d EXCEPT !.comments = (comment_id :> new_comment) @@ @,
                               !.posts[post_id].comments = Append(@, comment_id),
                               !.users[current_user.id].comments = Append(@, comment_id)],
              response |-> Answer(200)]

\* 04: create_user(user_data); the dicts are keyed by str(id)
create_user_Basics(d, t, user_data) ==
    LET new_id == uuid4(d)
        user_dict == [id |-> new_id, username |-> user_data.username,
                      email |-> user_data.email, full_name |-> user_data.full_name,
                      bio |-> user_data.bio, created_at |-> t, updated_at |-> None,
                      is_active |-> TRUE, posts |-> <<>>, comments |-> <<>>]
    IN  [db |-> [d EXCEPT !.users = (str(new_id) :> user_dict) @@ @],
         response |-> Answer(200)]

\* create_post as it would be without the check of the author: None["id"] raises
create_post_unchecked(d, t, post_data, author_id) ==
    IF author_id \notin DOMAIN d.users
    THEN [db |-> d, response |-> InternalServerError]
    ELSE LET author == d.users[author_id]
             new_id == uuid4(d)
             post_dict == [id |-> new_id, title |-> post_data.title,
                           content |-> post_data.content, created_at |-> t,
                           updated_at |-> None, published |-> post_data.published,
                           author_id |-> author.id, author |-> author.id,
                           comments |-> <<>>]
         IN  [db |-> [d EXCEPT !.posts = (str(new_id) :> post_dict) @@ @,
                               !.users[author_id].posts = Append(@, new_id)],
              response |-> Answer(200)]

\* 04: create_post(post_data, author_id)
create_post_Basics(d, t, post_data, author_id) ==
    IF author_id \notin DOMAIN d.users
    THEN [db |-> d, response |-> HTTPException(404, "Author not found")]
    ELSE LET author == d.users[author_id]
             new_id == uuid4(d)
             post_dict == [id |-> new_id, title |-> post_data.title,
                           content |-> post_data.content, created_at |-> t,
                           updated_at |-> None, published |-> post_data.published,
                           author_id |-> author.id, author |-> author.id,
                           comments |-> <<>>]
         IN  [db |-> [d EXCEPT !.posts = (str(new_id) :> post_dict) @@ @,
                               !.users[author_id].posts = Append(@, new_id)],
              response |-> Answer(200)]

\* 04: create_comment(post_id, comment_data, author_id)
create_comment_Basics(d, t, post_id, comment_data, author_id) ==
    IF post_id \notin DOMAIN d.posts
    THEN [db |-> d, response |-> HTTPException(404, "Post not found")]
    ELSE IF author_id \notin DOMAIN d.users
    THEN [db |-> d, response |-> HTTPException(404, "Author not found")]
    ELSE LET post == d.posts[post_id]
             author == d.users[author_id]
             new_id == uuid4(d)
             comment_dict == [id |-> new_id, content |-> comment_data.content,
                              created_at |-> t, updated_at |-> None,
                              author_id |-> author.id, post_id |-> post.id,
                              author |-> author.id]
         IN  [db |-> [d EXCEPT !.comments = (str(new_id) :> comment_dict) @@ @,
                               !.posts[post_id].comments = Append(@, new_id),
                               !.users[author_id].comments = Append(@, new_id)],
              response |-> Answer(200)]

\* the three dicts of 04 as one
fake_db == [users |-> fake_users_db, posts |-> fake_posts_db, comments |-> fake_comments_db]

\* 06: POST /users/
POST_users_Blog(user) ==
    /\ app = "Blog"
    /\ Sent
    /\ request' = [endpoint |-> "create_user", post_id |-> NoneId]
    /\ LET r == create_user_Blog(db_Blog, now, user)
       IN  db_Blog' = r.db /\ response' \in Served(r.response)
    /\ UNCHANGED <<app, fake_users_db, fake_posts_db, fake_comments_db>>
    /\ UNCHANGED outside_blog

\* 06: POST /users/{user_id}/posts/
POST_user_posts_Blog(user_id, post) ==
    /\ app = "Blog"
    /\ Sent
    /\ request' = [endpoint |-> "create_post", post_id |-> user_id]
    /\ LET r == create_post_Blog(db_Blog, now, user_id, post)
       IN  db_Blog' = r.db /\ response' \in Served(r.response)
    /\ UNCHANGED <<app, fake_users_db, fake_posts_db, fake_comments_db>>
    /\ UNCHANGED outside_blog

\* 06: POST /posts/{post_id}/comments/?user_id=
POST_post_comments_Blog(post_id, user_id, comment) ==
    /\ app = "Blog"
    /\ Sent
    /\ request' = [endpoint |-> "create_comment", post_id |-> post_id]
    /\ LET r == create_comment_Blog(db_Blog, now, post_id, user_id, comment)
       IN  db_Blog' = r.db /\ response' \in Served(r.response)
    /\ UNCHANGED <<app, fake_users_db, fake_posts_db, fake_comments_db>>
    /\ UNCHANGED outside_blog

\* what a request to 04 leaves of its three dicts
Stored_Basics(r) ==
    /\ fake_users_db' = r.db.users
    /\ fake_posts_db' = r.db.posts
    /\ fake_comments_db' = r.db.comments
    /\ response' \in Served(r.response)

\* 04: POST /users
POST_users_Basics(user_data) ==
    /\ app = "Basics"
    /\ Sent
    /\ request' = [endpoint |-> "create_user", post_id |-> NoneId]
    /\ Stored_Basics(create_user_Basics(fake_db, now, user_data))
    /\ UNCHANGED <<app, db_Blog>>
    /\ UNCHANGED outside_blog

\* 04: POST /posts?author_id=
POST_posts_Basics(post_data, author_id) ==
    /\ app = "Basics"
    /\ Sent
    /\ request' = [endpoint |-> "create_post", post_id |-> NoneId]
    /\ Stored_Basics(create_post_Basics(fake_db, now, post_data, author_id))
    /\ UNCHANGED <<app, db_Blog>>
    /\ UNCHANGED outside_blog

\* 04: POST /posts/{post_id}/comments?author_id=
POST_post_comments_Basics(post_id, comment_data, author_id) ==
    /\ app = "Basics"
    /\ Sent
    /\ request' = [endpoint |-> "create_comment", post_id |-> post_id]
    /\ Stored_Basics(create_comment_Basics(fake_db, now, post_id, comment_data, author_id))
    /\ UNCHANGED <<app, db_Blog>>
    /\ UNCHANGED outside_blog

Next_Blog ==
    \/ \E user \in UserBodies : POST_users_Blog(user)
    \/ \E user_id \in Uuids, post \in PostBodies : POST_user_posts_Blog(user_id, post)
    \/ \E post_id \in Uuids, user_id \in Uuids, comment \in CommentBodies :
          POST_post_comments_Blog(post_id, user_id, comment)
    \/ \E user_data \in UserBodies : POST_users_Basics(user_data)
    \/ \E post_data \in PostBodies, author_id \in Uuids :
          POST_posts_Basics(post_data, str(author_id))
    \/ \E post_id \in Uuids, comment_data \in CommentBodies, author_id \in Uuids :
          POST_post_comments_Basics(str(post_id), comment_data, str(author_id))

----------------------------------------------------------------------------
(* 05-Error_Handling/app/main.py (app "Library") *)

AVAILABLE == <<"a", "v", "a", "i", "l", "a", "b", "l", "e">>
BORROWED == <<"b", "o", "r", "r", "o", "w", "e", "d">>
MAINTENANCE == <<"m", "a", "i", "n", "t", "e", "n", "a", "n", "c", "e">>
LOST == <<"l", "o", "s", "t">>
BookStatus == {AVAILABLE, BORROWED, MAINTENANCE, LOST}

BookTitleMinLength == 1
BookTitleMaxLength == 100

\* class BookCreate(BookBase): title and author of 1 to 100 characters, isbn any str
IsBookCreate(book) ==
    /\ Len(book.title) >= BookTitleMinLength /\ Len(book.title) <= BookTitleMaxLength
    /\ Len(book.author) >= BookTitleMinLength /\ Len(book.author) <= BookTitleMaxLength

\* the requests the clients send
Isbn1 == <<"1">>
Isbn2 == <<"2">>
Isbns == {Isbn1, Isbn2}
BookBodies == [title : {Hello, <<>>}, author : {Ann}, isbn : Isbns]
BookIds == 1..(MaxCounter + 1)
StatusParams == {BORROWED, LOST, Bogus}

\* the names main.py imports from fastapi (line 2); of fastapi.responses it imports none
Imported == {"FastAPI", "HTTPException", "status", "Response"}

\* the exceptions the handlers raise
BookNotFoundException ==
    [class |-> "BookNotFoundException", status_code |-> 404,
     detail |-> <<"Book not found in the library">>]
IsbnExistsException ==
    [class |-> "HTTPException", status_code |-> 400,
     detail |-> <<"Book with this ISBN already exists">>]

create_error_response(error, detail, t) ==
    [error |-> error, detail |-> detail, timestamp |-> t]

\* @app.exception_handler(HTTPException): the answer to an HTTPException a handler raises.
\* JSONResponse is a name the module never binds: calling the handler raises NameError,
\* which no handler catches.
http_exception_handler(exc, t) ==
    IF "JSONResponse" \in Imported
    THEN [status_code |-> exc.status_code,
          content |-> create_error_response(exc.class, exc.detail, t)]
    ELSE InternalServerError

\* any(b["isbn"] == isbn for b in books_db.values())
isbn_exists(db, isbn) == \E id \in DOMAIN db : db[id].isbn = isbn

create_book(db, ctr, t, book) ==
    IF isbn_exists(db, book.isbn)
    THEN [db |-> db, counter |-> ctr,
          response |-> http_exception_handler(IsbnExistsException, t)]
    ELSE LET book_dict == [title |-> book.title, author |-> book.author,
                           isbn |-> book.isbn, id |-> ctr, status |-> AVAILABLE,
                           last_updated |-> t]
         IN  [db |-> (ctr :> book_dict) @@ db, counter |-> ctr + 1,
              response |-> Answer(201)]

get_book(db, ctr, t, book_id) ==
    IF book_id \notin DOMAIN db
    THEN [db |-> db, counter |-> ctr,
          response |-> http_exception_handler(BookNotFoundException, t)]
    ELSE [db |-> db, counter |-> ctr, response |-> Answer(200)]

update_book_status(db, ctr, t, book_id, status) ==
    IF book_id \notin DOMAIN db
    THEN [db |-> db, counter |-> ctr,
          response |-> http_exception_handler(BookNotFoundException, t)]
    ELSE [db |-> [db EXCEPT ![book_id].status = status, ![book_id].last_updated = t],
          counter |-> ctr, response |-> Answer(200)]

delete_book(db, ctr, t, book_id) ==
    IF book_id \notin DOMAIN db
    THEN [db |-> db, counter |-> ctr,
          response |-> http_exception_handler(BookNotFoundException, t)]
    ELSE [db |-> [id \in DOMAIN db \ {book_id} |-> db[id]], counter |-> ctr,
          response |-> Answer(204)]

list_books(db, ctr) ==
    IF values(db) = <<>>
    THEN [db |-> db, counter |-> ctr, response |-> Answer(204)]
    ELSE [db |-> db, counter |-> ctr, response |-> Answer(200)]

\* what a request to the Library leaves
Stored_Library(r) ==
    /\ books_db' = r.db
    /\ book_id_counter' = r.counter
    /\ response' = r.response
    /\ UNCHANGED app
    /\ UNCHANGED outside_library

\* POST /books/
POST_books(book) ==
    /\ app = "Library"
    /\ Sent
    /\ request' = [endpoint |-> "create_book", post_id |-> NoneId]
    /\ IF IsBookCreate(book)
       THEN Stored_Library(create_book(books_db, book_id_counter, now, book))
       ELSE Stored_Library([db |-> books_db, counter |-> book_id_counter,
                            response |-> RequestValidationError])

\* GET /books/{book_id}
GET_book(book_id) ==
    /\ app = "Library"
    /\ Sent
    /\ request' = [endpoint |-> "get_book", post_id |-> book_id]
    /\ Stored_Library(get_book(books_db, book_id_counter, now, book_id))

\* PATCH /books/{book_id}/status?status=
PATCH_book_status(book_id, status) ==
    /\ app = "Library"
    /\ Sent
    /\ request' = [endpoint |-> "update_book_status", post_id |-> book_id]
    /\ IF status \in BookStatus
       THEN Stored_Library(update_book_status(books_db, book_id_counter, now, book_id,
                                              status))
       ELSE Stored_Library([db |-> books_db, counter |-> book_id_counter,
                            response |-> RequestValidationError])

\* DELETE /books/{book_id}
DELETE_book(book_id) ==
    /\ app = "Library"
    /\ Sent
    /\ request' = [endpoint |-> "delete_book", post_id |-> book_id]
    /\ Stored_Library(delete_book(books_db, book_id_counter, now, book_id))

\* GET /books/
GET_books ==
    /\ app = "Library"
    /\ Sent
    /\ request' = [endpoint |-> "list_books", post_id |-> NoneId]
    /\ Stored_Library(list_books(books_db, book_id_counter))

Next_Library ==
    \/ \E book \in BookBodies : POST_books(book)
    \/ \E book_id \in BookIds : GET_book(book_id)
    \/ \E book_id \in BookIds, status \in StatusParams : PATCH_book_status(book_id, status)
    \/ \E book_id \in BookIds : DELETE_book(book_id)
    \/ GET_books

----------------------------------------------------------------------------
(* 06-Error_Handling/app/main.py (app "Registration") *)

Digits == {"0", "1", "2", "3", "4", "5", "6", "7", "8", "9"}
Uppers == {UpperCase[i] : i \in 1..Len(UpperCase)}
Lowers == {LowerCase[i] : i \in 1..Len(LowerCase)}

\* str.isalnum(): not empty and letters and digits only
isalnum(v) == v # <<>> /\ \A i \in 1..Len(v) : v[i] \in Uppers \cup Lowers \cup Digits

\* EmailStr: the validated address, its domain in lower case; None when v is no address
EmailStr(v) ==
    LET at == {i \in 1..Len(v) : v[i] = "@"}
    IN  IF Cardinality(at) # 1 THEN None
        ELSE LET i == CHOOSE j \in at : TRUE
             IN  IF i = 1 \/ i = Len(v) THEN None
                 ELSE SubSeq(v, 1, i) \o lower(SubSeq(v, i + 1, Len(v)))

\* @field_validator("username")
username_alphanumeric(v) == isalnum(v)

PhoneMinDigits == 9
PhoneMaxDigits == 15

\* @field_validator("phone_number"): None, or ^\+?1?\d{9,15}$
phone_number_format(v) ==
    \/ v = None
    \/ LET unsigned == IF v # <<>> /\ Head(v) = "+" THEN Tail(v) ELSE v
           digits(w) == /\ Len(w) >= PhoneMinDigits /\ Len(w) <= PhoneMaxDigits
                        /\ \A i \in 1..Len(w) : w[i] \in Digits
       IN  \/ digits(unsigned)
           \/ unsigned # <<>> /\ Head(unsigned) = "1" /\ digits(Tail(unsigned))

PasswordMinLength == 8

\* @field_validator("password")
password_strength(v) ==
    /\ Len(v) >= PasswordMinLength
    /\ \E i \in 1..Len(v) : v[i] \in Uppers
    /\ \E i \in 1..Len(v) : v[i] \in Lowers
    /\ \E i \in 1..Len(v) : v[i] \in Digits

\* class UserCreate(UserBase)
IsUserCreate(body) ==
    /\ EmailStr(body.email) # None
    /\ username_alphanumeric(body.username)
    /\ phone_number_format(body.phone_number)
    /\ password_strength(body.password)

\* the model the handler gets of a body that validates
UserCreate(body) == [body EXCEPT !.email = EmailStr(body.email)]

\* the requests the clients send
Emails == {<<"a", "@", "x">>, <<"a", "@", "X">>, <<"b", "@", "x">>, <<"a">>}
Usernames == {Ann, Bob, <<"A", " ", "n">>}
Passwords == {<<"P", "a", "s", "s", "w", "0", "r", "d">>, <<"p", "a", "s", "s">>}
PhoneNumbers == {None, <<"1", "2">>}
RegistrationBodies ==
    [email : Emails, username : Usernames, full_name : {Ann}, birth_date : {0},
     phone_number : {None}, password : Passwords]
    \cup [email : {<<"a", "@", "x">>}, username : {Ann}, full_name : {Ann},
          birth_date : {0}, phone_number : PhoneNumbers,
          password : {<<"P", "a", "s", "s", "w", "0", "r", "d">>}]
UserIds == 1..(MaxCounter + 1)

\* user_dict = user.dict() with user_dict["id"] = id
user_dict(user, id) ==
    [email |-> user.email, username |-> user.username, full_name |-> user.full_name,
     birth_date |-> user.birth_date, phone_number |-> user.phone_number,
     password |-> user.password, id |-> id]

\* a del that removed nothing
del_nothing(d, key) == d

\* del d[key]
del(d, key) == [f \in DOMAIN d \ {key} |-> d[f]]

\* the response model UserResponse of a dict: the fields of UserBase and id
UserResponse(d) ==
    [f \in {"email", "username", "full_name", "birth_date", "phone_number", "id"} |-> d[f]]

\* the body of an answer that is an error
NoUser == <<>>

\* create_user as it would be with the two checks in the other order
create_user_username_first(db, ctr, user) ==
    IF \E i \in DOMAIN db : db[i].username = user.username
    THEN [db |-> db, counter |-> ctr,
          response |-> HTTPException(400, "Username already taken")]
    ELSE IF \E i \in DOMAIN db : db[i].email = user.email
    THEN [db |-> db, counter |-> ctr,
          response |-> HTTPException(400, "Email already registered")]
    ELSE [db |-> Append(db, del(user_dict(user, ctr), "password")), counter |-> ctr + 1,
          response |-> Answer(201)]

\* create_user(user); users_db holds user_dict itself, not a copy, so the del after the
\* append takes the password out of the stored dict
create_user(db, ctr, user) ==
    IF \E i \in DOMAIN db : db[i].email = user.email
    THEN [db |-> db, counter |-> ctr,
          response |-> HTTPException(400, "Email already registered"), body |-> NoUser]
    ELSE IF \E i \in DOMAIN db : db[i].username = user.username
    THEN [db |-> db, counter |-> ctr,
          response |-> HTTPException(400, "Username already taken"), body |-> NoUser]
    ELSE LET appended == Append(db, user_dict(user, ctr))
             returned == del(appended[Len(appended)], "password")
         IN  [db |-> [appended EXCEPT ![Len(appended)] = returned], counter |-> ctr + 1,
              response |-> Answer(201), body |-> UserResponse(returned)]

get_user(db, ctr, user_id) ==
    IF \E i \in DOMAIN db : db[i].id = user_id
    THEN LET user == db[CHOOSE i \in DOMAIN db : db[i].id = user_id]
         IN  [db |-> db, counter |-> ctr, response |-> Answer(200),
              body |-> UserResponse(user)]
    ELSE [db |-> db, counter |-> ctr, response |-> HTTPException(404, "User not found"),
          body |-> NoUser]

\* what a request to the User Registration service leaves
Stored_Registration(r) ==
    /\ users_db' = r.db
    /\ user_id_counter' = r.counter
    /\ response' = r.response
    /\ UNCHANGED app
    /\ UNCHANGED outside_registration

\* POST /users/
POST_users(body) ==
    /\ app = "Registration"
    /\ Sent
    /\ request' = [endpoint |-> "create_user", post_id |-> NoneId, body |-> body]
    /\ IF IsUserCreate(body)
       THEN Stored_Registration(create_user(users_db, user_id_counter, UserCreate(body)))
       ELSE Stored_Registration([db |-> users_db, counter |-> user_id_counter,
                                 response |-> RequestValidationError])

\* GET /users/{user_id}
GET_user(user_id) ==
    /\ app = "Registration"
    /\ Sent
    /\ request' = [endpoint |-> "get_user", post_id |-> user_id, body |-> None]
    /\ Stored_Registration(get_user(users_db, user_id_counter, user_id))

Next_Registration ==
    \/ \E body \in RegistrationBodies : POST_users(body)
    \/ \E user_id \in UserIds : GET_user(user_id)

----------------------------------------------------------------------------
(* 07_SQLModel/app/main.py with models.py, schemas.py (app "07"); routers.py *)
(* declares the same handlers on an APIRouter                               *)

UsernameMinLength == 3
UsernameMaxLength == 50
FullNameMinLength == 1
FullNameMaxLength == 100
BioMaxLength == 500

Secret == <<"s", "e", "c", "r", "e", "t">>

\* schemas.UserCreate
IsUserCreate_07(body) ==
    /\ Len(body.username) >= UsernameMinLength /\ Len(body.username) <= UsernameMaxLength
    /\ EmailStr(body.email) # None
    /\ Len(body.full_name) >= FullNameMinLength /\ Len(body.full_name) <= FullNameMaxLength
    /\ body.bio = None \/ Len(body.bio) <= BioMaxLength

\* schemas.UserUpdate: every field is Optional, null passes
IsUserUpdate_07(body) ==
    /\ body.username \in {Unset, None}
         \/ (Len(body.username) >= UsernameMinLength
              /\ Len(body.username) <= UsernameMaxLength)
    /\ body.email \in {Unset, None} \/ EmailStr(body.email) # None
    /\ body.full_name \in {Unset, None}
         \/ (Len(body.full_name) >= FullNameMinLength
              /\ Len(body.full_name) <= FullNameMaxLength)
    /\ body.bio \in {Unset, None} \/ Len(body.bio) <= BioMaxLength

\* the model the handler gets of a body that validates
Validated_07(body) ==
    [body EXCEPT !.email = IF @ \in {Unset, None} THEN @ ELSE EmailStr(@)]

\* the requests the clients send
UserBodies_07 ==
    [username : {Ann, Bob, Hi}, email : {<<"a", "@", "x">>, <<"b", "@", "x">>},
     full_name : {Ann}, bio : {None}, password : {Secret}]
UserUpdateBodies_07 ==
    [username : {Ann, Unset, None}, email : {<<"a", "@", "x">>, <<"a", "@", "X">>, Unset},
     full_name : {Unset}, bio : {Unset}, password : {Unset}]
    \cup [username : {Unset}, email : {Unset}, full_name : {Unset}, bio : {Hi, Unset},
          password : {Secret, None, Unset}]

UserUpdateFields_07 == {"username", "email", "full_name", "bio", "password"}

\* user_update.model_dump(exclude_unset=True): the fields the body carries
user_data(body) == {f \in UserUpdateFields_07 : body[f] # Unset}

\* the columns of table users that are NOT NULL (models.UserModel) and set by a request
NotNull_07 == {"username", "email", "full_name", "hashed_password"}

\* select(UserModel).where((username == ...) | (email == ...)).first()
existing_user(table, user) ==
    \E id \in DOMAIN table :
       table[id].username = user.username \/ table[id].email = user.email

create_user_07(table, t, user) ==
    IF existing_user(table, user)
    THEN [db |-> table,
          response |-> HTTPException(400, "Username or email already registered")]
    ELSE LET id == Cardinality(DOMAIN table) + 1
             db_user == [id |-> id, username |-> user.username, email |-> user.email,
                         full_name |-> user.full_name, bio |-> user.bio,
                         hashed_password |-> user.password, created_at |-> t,
                         updated_at |-> None, is_active |-> TRUE]
         IN  [db |-> (id :> db_user) @@ table, response |-> Answer(201)]

\* the column a key of user_data is written to
column(f) == IF f = "password" THEN "hashed_password" ELSE f

update_user_07(table, t, user_id, user_update) ==
    IF user_id \notin DOMAIN table
    THEN [db |-> table, response |-> HTTPException(404, "User not found")]
    ELSE IF "password" \in user_data(user_update) /\ user_update.password = None
    THEN \* None.get_secret_value() raises AttributeError
         [db |-> table, response |-> InternalServerError]
    ELSE LET db_user == [c \in DOMAIN table[user_id] |->
                           IF \E f \in user_data(user_update) : column(f) = c
                           THEN user_update[CHOOSE f \in user_data(user_update) :
                                                column(f) = c]
                           ELSE IF c = "updated_at" THEN t
                           ELSE table[user_id][c]]
         IN  IF \E c \in NotNull_07 : db_user[c] = None
             THEN \* session.commit() raises IntegrityError: the transaction is rolled back
                  [db |-> table, response |-> InternalServerError]
             ELSE [db |-> [table EXCEPT ![user_id] = db_user], response |-> Answer(200)]

\* what a request to the SQLModel blog leaves
Stored_07(r) ==
    /\ users_07' = r.db
    /\ response' = r.response
    /\ UNCHANGED app
    /\ UNCHANGED outside_sqlmodel

\* POST /users/
POST_users_07(body) ==
    /\ app = "07"
    /\ Sent
    /\ request' = [endpoint |-> "create_user", post_id |-> NoneId]
    /\ IF IsUserCreate_07(body)
       THEN Stored_07(create_user_07(users_07, now, Validated_07(body)))
       ELSE Stored_07([db |-> users_07, response |-> RequestValidationError])

\* PUT /users/{user_id}
PUT_user_07(user_id, body) ==
    /\ app = "07"
    /\ Sent
    /\ request' = [endpoint |-> "update_user", post_id |-> user_id]
    /\ IF IsUserUpdate_07(body)
       THEN Stored_07(update_user_07(users_07, now, user_id, Validated_07(body)))
       ELSE Stored_07([db |-> users_07, response |-> RequestValidationError])

Next_SQLModel ==
    \/ \E body \in UserBodies_07 : POST_users_07(body)
    \/ \E user_id \in UserIds, body \in UserUpdateBodies_07 : PUT_user_07(user_id, body)

----------------------------------------------------------------------------
(* The session dependency: get_db of 06-DB_SQLAlchemy/app/main.py and          *)
(* 04-Pydantic/app/main.py, get_session of 07_SQLModel/app/database.py.        *)
(* A request is handled in four steps: the dependency runs up to its yield,   *)
(* the handler runs with the session, the dependency runs from its yield on   *)
(* (FastAPI resumes it, or throws the handler's exception into it, before it  *)
(* sends the response), the response is sent.  The requests of several        *)
(* clients are in progress at a time.                                         *)

\* the clients whose requests are in progress at a time
Clients == {1, 2}
SessionIds == 1..MaxRequests

\* the body of a request that has none
NoBody == [title |-> Unset, content |-> Unset, author |-> Unset, status |-> Unset]

\* no request of the client is in progress
NoCall == [endpoint |-> "none", post_id |-> NoneId, body |-> NoBody]

\* an answer that is an exception: the handler raised, or the commit failed
Raised(answer) == answer.status_code >= 400

\* the requests the clients send
TitleHello == [title |-> Hello, content |-> LongContent, author |-> Ann, status |-> Unset]
TitleNull == [title |-> None, content |-> Unset, author |-> Unset, status |-> Unset]
UserAnn ==
    [username |-> Ann, email |-> <<"a", "@", "x">>, full_name |-> Ann, bio |-> None,
     password |-> Secret]
UsernameNull ==
    [username |-> None, email |-> Unset, full_name |-> Unset, bio |-> Unset,
     password |-> Unset]
UserCalls ==
    [endpoint : {"create_user"}, post_id : {NoneId}, body : {UserAnn}]
    \cup [endpoint : {"update_user"}, post_id : {1}, body : {UsernameNull}]
PostCalls ==
    [endpoint : {"create_post"}, post_id : {NoneId}, body : {TitleHello}]
    \cup [endpoint : {"update_post"}, post_id : {1}, body : {TitleNull}]

\* the answer to a body that does not validate
Invalid(table) == [db |-> table, response |-> RequestValidationError]

\* the handler of a call of 06-DB_SQLAlchemy, run at time t on table posts
run_06(table, t, call) ==
    CASE call.endpoint = "create_post" ->
           IF IsPostCreate(call.body) THEN create_post_06(table, t, call.body)
           ELSE Invalid(table)
      [] call.endpoint = "get_post" -> get_post_06(table, t, call.post_id)
      [] call.endpoint = "update_post" ->
           IF IsPostUpdate(call.body)
           THEN update_post_06(table, t, call.post_id, call.body)
           ELSE Invalid(table)
      [] OTHER -> delete_post_06(table, call.post_id)

\* the handler of a call of 04-Pydantic
run_04(table, call) ==
    CASE call.endpoint = "create_post" ->
           IF IsPostCreate_04(call.body) THEN create_post_04(table, call.body)
           ELSE Invalid(table)
      [] call.endpoint = "get_post" -> get_post_04(table, call.post_id)
      [] call.endpoint = "update_post" ->
           IF IsPostUpdate_04(call.body)
           THEN update_post_04(table, call.post_id, call.body)
           ELSE Invalid(table)
      [] OTHER -> delete_post_04(table, call.post_id)

\* the handler of a call of 07_SQLModel
run_07(table, t, call) ==
    CASE call.endpoint = "create_user" ->
           IF IsUserCreate_07(call.body)
           THEN create_user_07(table, t, Validated_07(call.body))
           ELSE Invalid(table)
      [] OTHER ->
           IF IsUserUpdate_07(call.body)
           THEN update_user_07(table, t, call.post_id, Validated_07(call.body))
           ELSE Invalid(table)

\* get_db as it would be without try and finally: db = SessionLocal(); yield db;
\* db.close().  An exception thrown in at the yield leaves the generator there.
get_db_without_finally(open, session, answer) ==
    IF Raised(answer) THEN open ELSE open \ {session}

\* get_db from its yield on, however the handler ended: finally: db.close()
get_db_close(open, session, answer) == open \ {session}

\* get_session from its yield on: Session.__exit__ closes the session, exception or not
get_session_close(open, session, answer) == open \ {session}

\* a request arrives and the dependency runs up to its yield: a session is made for it
Opened(c, call) ==
    /\ pc[c] = "idle"
    /\ Sent
    /\ pc' = [pc EXCEPT ![c] = "yielded"]
    /\ calls' = [calls EXCEPT ![c] = call]
    /\ db_session' = [db_session EXCEPT ![c] = handled + 1]
    /\ open_sessions' = open_sessions \cup {handled + 1}
    /\ UNCHANGED <<app, posts_06, posts_04, users_07, pending, request, response>>
    /\ UNCHANGED outside_sessions

\* 06-DB_SQLAlchemy, 04-Pydantic: db = SessionLocal(); try: yield db
get_db_open(c, call) == app \in {"06", "04"} /\ Opened(c, call)

\* 07_SQLModel: with Session(engine) as session: yield session
get_session_open(c, call) == app = "07" /\ Opened(c, call)

\* the handler runs with the session and returns, raises, or fails to commit
handler(c) ==
    /\ pc[c] = "yielded"
    /\ LET r == CASE app = "06" -> run_06(posts_06, now, calls[c])
                  [] app = "04" -> run_04(posts_04, calls[c])
                  [] OTHER -> run_07(users_07, now, calls[c])
       IN  /\ posts_06' = IF app = "06" THEN r.db ELSE posts_06
           /\ posts_04' = IF app = "04" THEN r.db ELSE posts_04
           /\ users_07' = IF app = "07" THEN r.db ELSE users_07
           /\ pending' = [pending EXCEPT ![c] = r.response]
    /\ pc' = [pc EXCEPT ![c] = "handled"]
    /\ UNCHANGED <<app, calls, db_session, open_sessions, request, response, handled>>
    /\ UNCHANGED outside_sessions

\* the dependency runs from its yield on and leaves the sessions open
Exited(c, open) ==
    /\ pc[c] = "handled"
    /\ open_sessions' = open
    /\ pc' = [pc EXCEPT ![c] = "exited"]
    /\ UNCHANGED <<app, posts_06, posts_04, users_07, calls, db_session, pending,
                   request, response, handled>>
    /\ UNCHANGED outside_sessions

get_db_exit(c) ==
    /\ app \in {"06", "04"}
    /\ Exited(c, get_db_close(open_sessions, db_session[c], pending[c]))

get_session_exit(c) ==
    /\ app = "07"
    /\ Exited(c, get_session_close(open_sessions, db_session[c], pending[c]))

\* the response is sent: the request has ended
send(c) ==
    /\ pc[c] = "exited"
    /\ request' = [endpoint |-> calls[c].endpoint, post_id |-> calls[c].post_id]
    /\ response' = pending[c]
    /\ pc' = [pc EXCEPT ![c] = "idle"]
    /\ calls' = [calls EXCEPT ![c] = NoCall]
    /\ pending' = [pending EXCEPT ![c] = Answer(0)]
    /\ UNCHANGED <<app, posts_06, posts_04, users_07, db_session, open_sessions, handled>>
    /\ UNCHANGED outside_sessions

\* the server goes on with a request it has taken
Proceed ==
    \E c \in Clients : handler(c) \/ get_db_exit(c) \/ get_session_exit(c) \/ send(c)

Next_Sessions ==
    \/ \E c \in Clients, call \in PostCalls : get_db_open(c, call)
    \/ \E c \in Clients, call \in UserCalls : get_session_open(c, call)
    \/ \E c \in Clients : handler(c)
    \/ \E c \in Clients : get_db_exit(c)
    \/ \E c \in Clients : get_session_exit(c)
    \/ \E c \in Clients : send(c)

----------------------------------------------------------------------------
(* The SQLModel services that define a lifespan function:                      *)
(*   07_SQLModel_Basics/app/main.py          (app "Heroes", table hero)        *)
(*   07_SQLModel_FastAPI_Basics/app/main.py  (app "SimpleBlog", table user)    *)
(*   08_SQLModel_Blog/app/main.py            (app "Blog08", table user)        *)
(* The server starts the application, running the lifespan context the         *)
(* application was constructed with, and then takes requests.  The database is *)
(* a file: it may hold the tables from an earlier run.                         *)

\* the lifespan argument of the module's FastAPI(...): FastAPI() and
\* FastAPI(title="Blog API") pass none, the function lifespan is defined and left unused
FastAPI_lifespan(a) ==
    CASE a = "Heroes" -> None
      [] a = "SimpleBlog" -> None
      [] OTHER -> None

\* the function lifespan of the module, an async context manager
lifespan == <<"lifespan">>

\* the rows the clients send
RowBodies == [name : {Ann, Bob}]

\* session.add(row); session.commit(); session.refresh(row) on a table that may not exist
insert_row(exists, table, row) ==
    IF ~exists
    THEN \* sqlite3.OperationalError: no such table
         [db |-> table, response |-> InternalServerError]
    ELSE [db |-> (next_rowid(table) :> [id |-> next_rowid(table), name |-> row.name])
                  @@ table,
          response |-> Answer(200)]

\* session.exec(select(...)).all()
select_rows(exists, table) ==
    IF ~exists THEN [db |-> table, response |-> InternalServerError]
    ELSE [db |-> table, response |-> Answer(200)]

\* the server's lifespan startup: the context given to FastAPI(...) runs up to its yield
startup ==
    /\ app \in {"Heroes", "SimpleBlog", "Blog08"}
    /\ ~serving
    /\ serving' = TRUE
    /\ IF FastAPI_lifespan(app) = lifespan
       THEN created' = TRUE /\ tables' = TRUE   \* create_db_and_tables()
       ELSE UNCHANGED <<created, tables>>
    /\ UNCHANGED <<app, rows, request, response, handled>>
    /\ UNCHANGED outside_startup

\* what a request to one of the three services leaves
Stored_rows(r) ==
    /\ rows' = r.db
    /\ response' = r.response
    /\ UNCHANGED <<app, serving, created, tables>>
    /\ UNCHANGED outside_startup

\* 07_SQLModel_Basics: POST /heroes/
create_hero(hero) ==
    /\ app = "Heroes" /\ serving
    /\ Sent
    /\ request' = [endpoint |-> "create_hero", post_id |-> NoneId]
    /\ Stored_rows(insert_row(tables, rows, hero))

\* 07_SQLModel_Basics: GET /heroes/
read_heroes ==
    /\ app = "Heroes" /\ serving
    /\ Sent
    /\ request' = [endpoint |-> "read_heroes", post_id |-> NoneId]
    /\ Stored_rows(select_rows(tables, rows))

\* 07_SQLModel_FastAPI_Basics: POST /users/
create_user_SimpleBlog(user) ==
    /\ app = "SimpleBlog" /\ serving
    /\ Sent
    /\ request' = [endpoint |-> "create_user", post_id |-> NoneId]
    /\ Stored_rows(insert_row(tables, rows, user))

\* 07_SQLModel_FastAPI_Basics: GET /users/
read_users_SimpleBlog ==
    /\ app = "SimpleBlog" /\ serving
    /\ Sent
    /\ request' = [endpoint |-> "read_users", post_id |-> NoneId]
    /\ Stored_rows(select_rows(tables, rows))

\* 08_SQLModel_Blog: POST /users/
create_user_Blog08(user) ==
    /\ app = "Blog08" /\ serving
    /\ Sent
    /\ request' = [endpoint |-> "create_user", post_id |-> NoneId]
    /\ LET r == insert_row(tables, rows, user)
       IN  Stored_rows([db |-> r.db,
                        response |-> IF r.response = Answer(200) THEN Answer(201)
                                     ELSE r.response])

\* 08_SQLModel_Blog: GET /users/
get_users_Blog08 ==
    /\ app = "Blog08" /\ serving
    /\ Sent
    /\ request' = [endpoint |-> "get_users", post_id |-> NoneId]
    /\ Stored_rows(select_rows(tables, rows))

Next_Startup ==
    \/ startup
    \/ \E hero \in RowBodies : create_hero(hero)
    \/ read_heroes
    \/ \E user \in RowBodies : create_user_SimpleBlog(user)
    \/ read_users_SimpleBlog
    \/ \E user \in RowBodies : create_user_Blog08(user)
    \/ get_users_Blog08

----------------------------------------------------------------------------
(* 02-Path_Params/app/main.py (app "Videos") *)

TECH == <<"t", "e", "c", "h">>
GAMING == <<"g", "a", "m", "i", "n", "g">>
MUSIC == <<"m", "u", "s", "i", "c">>
VideoCategory == {TECH, GAMING, MUSIC}

VideoTitleMinLength == 3
VideoTitleMaxLength == 50
DescriptionMaxLength == 200

\* class Video(BaseModel)
IsVideo(video) ==
    /\ Len(video.title) >= VideoTitleMinLength /\ Len(video.title) <= VideoTitleMaxLength
    /\ video.description = None \/ Len(video.description) <= DescriptionMaxLength
    /\ video.category \in VideoCategory
    /\ video.views >= 0
    /\ video.likes >= 0

\* videos as the module sets it up
InitialVideos ==
    (1 :> [id |-> 1,
     title |-> <<"F", "a", "s", "t", "A", "P", "I", " ", "T", "u", "t", "o", "r", "i",
                 "a", "l">>,
     description |-> <<"L", "e", "a", "r", "n", " ", "F", "a", "s", "t", "A", "P", "I", " ",
                 "b", "a", "s", "i", "c", "s">>,
     category |-> TECH, views |-> 1500, likes |-> 200])
    @@ (2 :> [id |-> 2,
     title |-> <<"P", "y", "t", "h", "o", "n", " ", "f", "o", "r", " ", "B", "e", "g",
                 "i", "n", "n", "e", "r", "s">>,
     description |-> <<"I", "n", "t", "r", "o", "d", "u", "c", "t", "i", "o", "n", " ", "t",
                 "o", " ", "P", "y", "t", "h", "o", "n">>,
     category |-> TECH, views |-> 1200, likes |-> 150])
    @@ (3 :> [id |-> 3,
     title |-> <<"G", "a", "m", "i", "n", "g", " ", "S", "e", "t", "u", "p", " ", "T",
                 "o", "u", "r">>,
     description |-> <<"M", "y", " ", "g", "a", "m", "i", "n", "g", " ", "s", "e", "t", "u",
                 "p">>,
     category |-> GAMING, views |-> 800, likes |-> 100])
    @@ (4 :> [id |-> 4,
     title |-> <<"G", "u", "i", "t", "a", "r", " ", "L", "e", "s", "s", "o", "n", " ",
                 "1">>,
     description |-> <<"B", "e", "g", "i", "n", "n", "e", "r", " ", "g", "u", "i", "t", "a",
                 "r", " ", "l", "e", "s", "s", "o", "n">>,
     category |-> MUSIC, views |-> 2000, likes |-> 300])

\* the requests the clients send
VideoBodies ==
    [id : {1, 9}, title : {Hello, Hi}, description : {None}, category : {MUSIC, Bogus},
     views : {0, 7, -1}, likes : {0, -1}]
VideoIds == {1, 5, 9}

\* max(videos.keys())
max_key(db) == CHOOSE k \in DOMAIN db : \A j \in DOMAIN db : j <= k

\* create_video as it would be if the video kept the id of the request body
create_video_under_its_id(db, video) ==
    [db |-> [k \in DOMAIN db \cup {video.id} |-> IF k = video.id THEN video ELSE db[k]],
     response |-> Answer(200)]

create_video(db, video) ==
    LET new_id == max_key(db) + 1
    IN  [db |-> (new_id :> [video EXCEPT !.id = new_id]) @@ db, response |-> Answer(200)]

get_video(db, video_id) ==
    IF video_id \notin DOMAIN db
    THEN [db |-> db, response |-> HTTPException(404, "Video not found")]
    ELSE [db |-> db, response |-> Answer(200)]

\* what a request to the video service leaves
Stored_Videos(r) ==
    /\ videos' = r.db
    /\ response' = r.response
    /\ UNCHANGED app
    /\ UNCHANGED outside_video

\* POST /videos/add
POST_videos_add(video) ==
    /\ app = "Videos"
    /\ Sent
    /\ request' = [endpoint |-> "create_video", post_id |-> video.id]
    /\ IF IsVideo(video) THEN Stored_Videos(create_video(videos, video))
       ELSE Stored_Videos([db |-> videos, response |-> RequestValidationError])

\* GET /videos/{video_id}
GET_video(video_id) ==
    /\ app = "Videos"
    /\ Sent
    /\ request' = [endpoint |-> "get_video", post_id |-> video_id]
    /\ Stored_Videos(get_video(videos, video_id))

\* GET /videos/
GET_videos ==
    /\ app = "Videos"
    /\ Sent
    /\ request' = [endpoint |-> "get_videos", post_id |-> NoneId]
    /\ Stored_Videos([db |-> videos, response |-> Answer(200)])

Next_Videos ==
    \/ \E video \in VideoBodies : POST_videos_add(video)
    \/ \E video_id \in VideoIds : GET_video(video_id)
    \/ GET_videos

----------------------------------------------------------------------------
(* 09-Error_Handling/app/main.py: concurrent requests in the event loop *)

\* The handlers are coroutines (async def): the event loop runs one of them until it
\* awaits, and only then another. A request is parsed and validated before its handler
\* starts, and answered after its handler has returned.

HelloUpper == [title |-> HELLO, content |-> LongContent, author |-> Ann, status |-> Unset]
LoopCalls ==
    [endpoint : {"create_post"}, post_id : {NoneId}, body : {TitleHello, HelloUpper}]
    \cup [endpoint : {"update_post"}, post_id : {1}, body : {TitleNull}]
    \cup [endpoint : {"get_post", "delete_post"}, post_id : {1}, body : {NoBody}]

IdleTask == [pc |-> "idle", call |-> NoCall, n |-> 0, response |-> Answer(0), id |-> NoneId]

\* the handler of the task has returned or raised
Done(task, answer, id) == [task EXCEPT !.pc = "done", !.response = answer, !.id = id]

\* a handler that awaited between its title check and its write
awaits_after_check(endpoint) == endpoint = "create_post"

\* the handler awaits between its title check and its write: none of them awaits at all
awaits(endpoint) == FALSE

\* create_post from where the task stands to its next await or its end
resume_create_post(task, db, ctr, t) ==
    LET post == PostCreate(task.call.body)
        exists == IF task.pc = "write" THEN "False"
                  ELSE check_title_exists_09(db, post.title, NoneId)
        post_dict == [id |-> ctr, title |-> post.title, content |-> post.content,
                      author |-> post.author, status |-> post.status,
                      created_at |-> t, updated_at |-> t, views |-> 0]
    IN  CASE exists = "AttributeError" ->
               [db |-> db, counter |-> ctr, task |-> Done(task, InternalServerError, NoneId)]
          [] exists = "True" ->
               [db |-> db, counter |-> ctr,
                task |-> Done(task, PostTitleExistsException, NoneId)]
          [] exists = "False" /\ task.pc = "run" /\ awaits("create_post") ->
               [db |-> db, counter |-> ctr, task |-> [task EXCEPT !.pc = "write"]]
          [] OTHER ->
               [db |-> (ctr :> post_dict) @@ db, counter |-> ctr + 1,
                task |-> Done(task, Answer(201), ctr)]

\* the handler of the task from where it stands to its next await or its end
resume(task, db, ctr, t) ==
    LET call == task.call
        whole(r) == [db |-> r.db, counter |-> ctr, task |-> Done(task, r.response, NoneId)]
    IN  CASE call.endpoint = "create_post" ->
               IF ~IsPostCreate(call.body)
               THEN whole([db |-> db, response |-> RequestValidationError])
               ELSE resume_create_post(task, db, ctr, t)
          [] call.endpoint = "update_post" ->
               IF ~IsPostUpdate(call.body)
               THEN whole([db |-> db, response |-> RequestValidationError])
               ELSE whole(update_post_09(db, t, call.post_id, call.body))
          [] call.endpoint = "get_post" -> whole(get_post_09(db, call.post_id))
          [] OTHER -> whole(delete_post_09(db, call.post_id))

\* the request of a client arrives while those of the others are in progress
arrive(c, call) ==
    /\ app = "09"
    /\ tasks[c].pc = "idle"
    /\ Sent
    /\ tasks' = [tasks EXCEPT ![c] = [IdleTask EXCEPT !.pc = "run", !.call = call,
                                                      !.n = handled']]
    /\ UNCHANGED <<app, posts_db, counter, issued, request, response>>
    /\ UNCHANGED outside_loop

\* the event loop runs the handler of a client to its next await or its end
step(c) ==
    /\ app = "09"
    /\ tasks[c].pc \in {"run", "write"}
    /\ LET r == resume(tasks[c], posts_db, counter, now)
       IN  /\ r.counter <= MaxCounter + 1
           /\ \A k \in DOMAIN r.db : r.db[k].views <= MaxViews
           /\ posts_db' = r.db
           /\ counter' = r.counter
           /\ tasks' = [tasks EXCEPT ![c] = r.task]
           /\ issued' = IF r.task.id # NoneId THEN issued \cup {r.task.id} ELSE issued
    /\ UNCHANGED <<app, request, response, handled>>
    /\ UNCHANGED outside_loop

\* the answer of a handler that has ended is sent
respond(c) ==
    /\ app = "09"
    /\ tasks[c].pc = "done"
    /\ request' = [endpoint |-> tasks[c].call.endpoint, post_id |-> tasks[c].call.post_id]
    /\ response' = tasks[c].response
    /\ tasks' = [tasks EXCEPT ![c] = IdleTask]
    /\ UNCHANGED <<app, posts_db, counter, issued, handled>>
    /\ UNCHANGED outside_loop

Next_Loop ==
    \/ \E c \in Clients, call \in LoopCalls : arrive(c, call)
    \/ \E c \in Clients : step(c)
    \/ \E c \in Clients : respond(c)

----------------------------------------------------------------------------
(* 04-Pydantic/app/main.py: concurrent requests in the worker threads *)

\* The handlers are plain functions (def), which run in the threads of a pool: a thread
\* may be suspended between any two statements of its handler. The statements that reach
\* the database are the query and the commit; SQLite runs each of them as a whole.

WorkerCalls_04 ==
    [endpoint : {"create_post"}, post_id : {NoneId}, body : {TitleHello, HelloUpper}]
    \cup [endpoint : {"get_post"}, post_id : {1}, body : {NoBody}]

\* create_post(post, db) from where the thread stands to its next database statement
create_post_thread(task, table) ==
    LET body == task.call.body
        id == next_rowid(table)
        db_post == [id |-> id, title |-> body.title, content |-> body.content,
                    author |-> body.author, status |-> DRAFT]
        added == (id :> db_post) @@ table
    IN  IF task.pc = "run"
        THEN \* db.query(BlogPost).filter(BlogPost.title == post.title).first()
             IF \E k \in DOMAIN table : table[k].title = body.title
             THEN [db |-> table, task |-> Done(task, PostTitleExistsException, NoneId)]
             ELSE [db |-> table, task |-> [task EXCEPT !.pc = "commit"]]
        ELSE \* db.commit(): the INSERT fails on the UNIQUE title and nothing handles it
             IF IntegrityError_04(added)
             THEN [db |-> table, task |-> Done(task, InternalServerError, NoneId)]
             ELSE [db |-> added, task |-> Done(task, Answer(201), id)]

\* the request of a client arrives while those of the others are in progress
accept_04(c, call) ==
    /\ app = "04"
    /\ tasks[c].pc = "idle"
    /\ Sent
    /\ tasks' = [tasks EXCEPT ![c] = [IdleTask EXCEPT !.pc = "run", !.call = call,
                                                      !.n = handled']]
    /\ UNCHANGED <<app, posts_04, request, response>>
    /\ UNCHANGED outside_workers_04

\* the thread of a client runs its handler up to and including a database statement
worker_04(c) ==
    /\ app = "04"
    /\ tasks[c].pc \in {"run", "commit"}
    /\ LET task == tasks[c]
           whole(r) == [db |-> r.db, task |-> Done(task, r.response, NoneId)]
           r == IF task.call.endpoint = "get_post"
                THEN whole(get_post_04(posts_04, task.call.post_id))
                ELSE IF ~IsPostCreate_04(task.call.body) THEN whole(Invalid(posts_04))
                ELSE create_post_thread(task, posts_04)
       IN  /\ next_rowid(r.db) <= MaxCounter + 1
           /\ posts_04' = r.db
           /\ tasks' = [tasks EXCEPT ![c] = r.task]
    /\ UNCHANGED <<app, request, response, handled>>
    /\ UNCHANGED outside_workers_04

\* the answer of a handler that has ended is sent
answer_04(c) ==
    /\ app = "04"
    /\ tasks[c].pc = "done"
    /\ request' = [endpoint |-> tasks[c].call.endpoint, post_id |-> tasks[c].call.post_id]
    /\ response' = tasks[c].response
    /\ tasks' = [tasks EXCEPT ![c] = IdleTask]
    /\ UNCHANGED <<app, posts_04, handled>>
    /\ UNCHANGED outside_workers_04

Next_Workers_04 ==
    \/ \E c \in Clients, call \in WorkerCalls_04 : accept_04(c, call)
    \/ \E c \in Clients : worker_04(c)
    \/ \E c \in Clients : answer_04(c)

----------------------------------------------------------------------------
(* 07_SQLModel/app/main.py: concurrent requests in the worker threads *)

\* The handlers are plain functions (def) run in the threads of a pool, as in 04-Pydantic.

UserBob == [UserAnn EXCEPT !.username = Bob]
WorkerCalls_07 ==
    [endpoint : {"create_user"}, post_id : {NoneId}, body : {UserAnn, UserBob}]
    \cup [endpoint : {"read_users"}, post_id : {NoneId}, body : {NoBody}]

\* create_user(user, session) from where the thread stands to its next database statement
create_user_thread(task, table, t) ==
    LET user == Validated_07(task.call.body)
        id == Cardinality(DOMAIN table) + 1
        db_user == [id |-> id, username |-> user.username, email |-> user.email,
                    full_name |-> user.full_name, bio |-> user.bio,
                    hashed_password |-> user.password, created_at |-> t,
                    updated_at |-> None, is_active |-> TRUE]
    IN  IF task.pc = "run"
        THEN \* session.exec(select(UserModel).where(...)).first()
             IF existing_user(table, user)
             THEN [db |-> table,
                   task |-> Done(task,
                                 HTTPException(400, "Username or email already registered"),
                                 NoneId)]
             ELSE [db |-> table, task |-> [task EXCEPT !.pc = "commit"]]
        ELSE \* session.commit(): table users has no UNIQUE constraint
             [db |-> (id :> db_user) @@ table, task |-> Done(task, Answer(201), id)]

\* the request of a client arrives while those of the others are in progress
accept_07(c, call) ==
    /\ app = "07"
    /\ tasks[c].pc = "idle"
    /\ Sent
    /\ tasks' = [tasks EXCEPT ![c] = [IdleTask EXCEPT !.pc = "run", !.call = call,
                                                      !.n = handled']]
    /\ UNCHANGED <<app, users_07, request, response>>
    /\ UNCHANGED outside_workers_07

\* the thread of a client runs its handler up to and including a database statement
worker_07(c) ==
    /\ app = "07"
    /\ tasks[c].pc \in {"run", "commit"}
    /\ LET task == tasks[c]
           whole(r) == [db |-> r.db, task |-> Done(task, r.response, NoneId)]
           r == IF task.call.endpoint = "read_users"
                THEN whole([db |-> users_07, response |-> Answer(200)])
                ELSE IF ~IsUserCreate_07(task.call.body)
                THEN whole([db |-> users_07, response |-> RequestValidationError])
                ELSE create_user_thread(task, users_07, now)
       IN  /\ Cardinality(DOMAIN r.db) <= MaxCounter
           /\ users_07' = r.db
           /\ tasks' = [tasks EXCEPT ![c] = r.task]
    /\ UNCHANGED <<app, request, response, handled>>
    /\ UNCHANGED outside_workers_07

\* the answer of a handler that has ended is sent
answer_07(c) ==
    /\ app = "07"
    /\ tasks[c].pc = "done"
    /\ request' = [endpoint |-> tasks[c].call.endpoint, post_id |-> tasks[c].call.post_id]
    /\ response' = tasks[c].response
    /\ tasks' = [tasks EXCEPT ![c] = IdleTask]
    /\ UNCHANGED <<app, users_07, handled>>
    /\ UNCHANGED outside_workers_07

Next_Workers_07 ==
    \/ \E c \in Clients, call \in WorkerCalls_07 : accept_07(c, call)
    \/ \E c \in Clients : worker_07(c)
    \/ \E c \in Clients : answer_07(c)

----------------------------------------------------------------------------
(* 09-Error_Handling and 06-DB_SQLAlchemy side by side *)

\* Every request is sent to both services, each starting with no post; `response` is the
\* answer of 09-Error_Handling.

\* what the two services leave of one request
Stored_Both(r09, r06) ==
    /\ r09.counter <= MaxCounter + 1
    /\ next_rowid(r06.db) <= MaxCounter + 1
    /\ \A k \in DOMAIN r09.db : r09.db[k].views <= MaxViews
    /\ \A k \in DOMAIN r06.db : r06.db[k].views <= MaxViews
    /\ posts_db' = r09.db
    /\ counter' = r09.counter
    /\ posts_06' = r06.db
    /\ response' = r09.response
    /\ UNCHANGED <<app, posts_04>>
    /\ UNCHANGED outside_blogpost

\* POST /posts/
POST_posts_Both(body) ==
    /\ app = "09 and 06"
    /\ Sent
    /\ request' = [endpoint |-> "create_post", post_id |-> NoneId]
    /\ IsPostCreate(body)
    /\ Stored_Both(create_post_09(posts_db, counter, now, body),
                   create_post_06(posts_06, now, body))

\* GET /posts/{post_id}
GET_post_Both(post_id) ==
    /\ app = "09 and 06"
    /\ Sent
    /\ request' = [endpoint |-> "get_post", post_id |-> post_id]
    /\ Stored_Both([counter |-> counter] @@ get_post_09(posts_db, post_id),
                   get_post_06(posts_06, now, post_id))

\* PATCH /posts/{post_id}
PATCH_post_Both(post_id, body) ==
    /\ app = "09 and 06"
    /\ Sent
    /\ request' = [endpoint |-> "update_post", post_id |-> post_id]
    /\ IsPostUpdate(body)
    /\ Stored_Both([counter |-> counter] @@ update_post_09(posts_db, now, post_id, body),
                   update_post_06(posts_06, now, post_id, body))

\* DELETE /posts/{post_id}
DELETE_post_Both(post_id) ==
    /\ app = "09 and 06"
    /\ Sent
    /\ request' = [endpoint |-> "delete_post", post_id |-> post_id]
    /\ Stored_Both([counter |-> counter] @@ delete_post_09(posts_db, post_id),
                   delete_post_06(posts_06, post_id))

Next_Both ==
    \/ \E body \in CreateBodies : POST_posts_Both(body)
    \/ \E post_id \in PostIds : GET_post_Both(post_id)
    \/ \E post_id \in PostIds, body \in UpdateBodies : PATCH_post_Both(post_id, body)
    \/ \E post_id \in PostIds : DELETE_post_Both(post_id)

----------------------------------------------------------------------------
(* 07_SQLModel/app/main.py: the posts and the comments *)

PostTitleMaxLength_07 == 200
CommentMaxLength == 1000

\* schemas.PostCreate
IsPostCreate_07(post) ==
    /\ Len(post.title) >= 1 /\ Len(post.title) <= PostTitleMaxLength_07
    /\ Len(post.content) >= 1

\* schemas.CommentCreate
IsCommentCreate_07(comment) ==
    Len(comment.content) >= 1 /\ Len(comment.content) <= CommentMaxLength

\* the requests the clients send
PostBodies_07 == [title : {Hello, <<>>}, content : {LongContent}, published : {FALSE}]
CommentBodies_07 == [content : {Hi, <<>>}]

\* the tables of the service
Tables_07 == [users |-> users_07, posts |-> posts_07, comments |-> comments_07,
              uuids |-> uuids]

\* uuid4() for a post or a comment: an id that none has had before
uuid4_07(d) == d.uuids + 1

create_post_07(d, t, user_id, post) ==
    IF user_id \notin DOMAIN d.users
    THEN [db |-> d, response |-> HTTPException(404, "User not found")]
    ELSE LET id == uuid4_07(d)
             db_post == [id |-> id, title |-> post.title, content |-> post.content,
                         created_at |-> t, updated_at |-> None,
                         published |-> post.published, author_id |-> user_id]
         IN  [db |-> [d EXCEPT !.posts = (id :> db_post) @@ @, !.uuids = id],
              response |-> Answer(201)]

\* a delete of a post that left its comments where they are
no_cascade(comments, post_id) == comments

\* PostModel.comments, cascade "all, delete-orphan": the comments of a deleted post are
\* deleted with it
cascade(comments, post_id) ==
    [k \in {c \in DOMAIN comments : comments[c].post_id # post_id} |-> comments[k]]

delete_post_07(d, post_id) ==
    IF post_id \notin DOMAIN d.posts
    THEN [db |-> d, response |-> HTTPException(404, "Post not found")]
    ELSE [db |-> [d EXCEPT !.posts = [k \in DOMAIN @ \ {post_id} |-> @[k]],
                           !.comments = cascade(@, post_id)],
          response |-> Answer(204)]

create_comment_07(d, t, post_id, user_id, comment) ==
    IF post_id \notin DOMAIN d.posts
    THEN [db |-> d, response |-> HTTPException(404, "Post not found")]
    ELSE IF user_id \notin DOMAIN d.users
    THEN [db |-> d, response |-> HTTPException(404, "User not found")]
    ELSE LET id == uuid4_07(d)
             db_comment == [id |-> id, content |-> comment.content, created_at |-> t,
                            updated_at |-> None, author_id |-> user_id,
                            post_id |-> post_id]
         IN  [db |-> [d EXCEPT !.comments = (id :> db_comment) @@ @, !.uuids = id],
              response |-> Answer(201)]

delete_comment_07(d, comment_id) ==
    IF comment_id \notin DOMAIN d.comments
    THEN [db |-> d, response |-> HTTPException(404, "Comment not found")]
    ELSE [db |-> [d EXCEPT !.comments = [k \in DOMAIN @ \ {comment_id} |-> @[k]]],
          response |-> Answer(204)]

\* what a request about posts or comments leaves
Stored_Tables_07(r) ==
    /\ posts_07' = r.db.posts
    /\ comments_07' = r.db.comments
    /\ uuids' = r.db.uuids
    /\ response' = r.response
    /\ UNCHANGED app
    /\ UNCHANGED outside_sqlblog

\* POST /posts/?user_id=
POST_posts_07(user_id, body) ==
    /\ app = "07"
    /\ Sent
    /\ request' = [endpoint |-> "create_post", post_id |-> NoneId]
    /\ IF IsPostCreate_07(body)
       THEN Stored_Tables_07(create_post_07(Tables_07, now, user_id, body))
       ELSE Stored_Tables_07([db |-> Tables_07, response |-> RequestValidationError])

\* DELETE /posts/{post_id}
DELETE_post_07(post_id) ==
    /\ app = "07"
    /\ Sent
    /\ request' = [endpoint |-> "delete_post", post_id |-> post_id]
    /\ Stored_Tables_07(delete_post_07(Tables_07, post_id))

\* POST /posts/{post_id}/comments/?user_id=
POST_post_comments_07(post_id, user_id, body) ==
    /\ app = "07"
    /\ Sent
    /\ request' = [endpoint |-> "create_comment", post_id |-> post_id]
    /\ IF IsCommentCreate_07(body)
       THEN Stored_Tables_07(create_comment_07(Tables_07, now, post_id, user_id, body))
       ELSE Stored_Tables_07([db |-> Tables_07, response |-> RequestValidationError])

\* DELETE /comments/{comment_id}
DELETE_comment_07(comment_id) ==
    /\ app = "07"
    /\ Sent
    /\ request' = [endpoint |-> "delete_comment", post_id |-> comment_id]
    /\ Stored_Tables_07(delete_comment_07(Tables_07, comment_id))

Next_SQLBlog ==
    \/ \E body \in UserBodies_07 : POST_users_07(body)
    \/ \E user_id \in UserIds, body \in PostBodies_07 : POST_posts_07(user_id, body)
    \/ \E post_id \in Uuids : DELETE_post_07(post_id)
    \/ \E post_id \in Uuids, user_id \in UserIds, body \in CommentBodies_07 :
          POST_post_comments_07(post_id, user_id, body)
    \/ \E comment_id \in Uuids : DELETE_comment_07(comment_id)

----------------------------------------------------------------------------
(* The applications *)

NoRequest == [endpoint |-> "none", post_id |-> NoneId]

\* no request has been sent
Idle == request = NoRequest /\ response = Answer(0) /\ handled = 0

\* the stores as the modules set them up
Init_blogpost == posts_db = <<>> /\ counter = 1 /\ posts_06 = <<>> /\ posts_04 = <<>>
Init_blog ==
    /\ db_Blog = EmptyDb
    /\ fake_users_db = <<>>
    /\ fake_posts_db = <<>>
    /\ fake_comments_db = <<>>

Init_library == books_db = <<>> /\ book_id_counter = 1

Init_registration == users_db = <<>> /\ user_id_counter = 1

Init_sqlmodel == users_07 = <<>>

\* no request is in progress, no session has been made
Init_sessions ==
    /\ pc = [c \in Clients |-> "idle"]
    /\ calls = [c \in Clients |-> NoCall]
    /\ db_session = [c \in Clients |-> NoneId]
    /\ open_sessions = {}
    /\ pending = [c \in Clients |-> Answer(0)]

\* the application has not started; the table is empty
Init_startup == serving = FALSE /\ created = FALSE /\ tables = FALSE /\ rows = <<>>

Init_videos == videos = InitialVideos

Init_loop == tasks = [c \in Clients |-> IdleTask] /\ issued = {}

Init_sqlblog == posts_07 = <<>> /\ comments_07 = <<>> /\ uuids = 0

Services ==
    /\ Init_blogpost /\ Init_blog /\ Init_library /\ Init_registration /\ Init_sqlmodel
    /\ Init_sessions
    /\ Init_startup
    /\ Init_videos
    /\ Init_loop
    /\ Init_sqlblog
    /\ Idle

Init == app \in {"09", "06", "04"} /\ Services

Next == Next_09 \/ Next_06 \/ Next_04

Spec == Init /\ [][Next]_vars

\* the User/Post/Comment blog services
Init_Blog == app \in {"Blog", "Basics"} /\ Services

Spec_Blog == Init_Blog /\ [][Next_Blog]_vars

\* the Library service
Init_Library == app = "Library" /\ Services

Spec_Library == Init_Library /\ [][Next_Library]_vars

\* the User Registration service
Init_Registration == app = "Registration" /\ Services

Spec_Registration == Init_Registration /\ [][Next_Registration]_vars

\* the SQLModel blog service
Init_SQLModel == app = "07" /\ Services

Spec_SQLModel == Init_SQLModel /\ [][Next_SQLModel]_vars

\* the services with a session dependency, their requests taken step by step; the
\* server does not stop in the middle of a request
Init_Sessions == app \in {"06", "04", "07"} /\ Services

Spec_Sessions == Init_Sessions /\ [][Next_Sessions]_vars /\ WF_vars(Proceed)

\* the SQLModel services that define a lifespan function; the database file is new or
\* holds the tables of an earlier run
Init_Startup ==
    /\ app \in {"Heroes", "SimpleBlog", "Blog08"}
    /\ Init_blogpost /\ Init_blog /\ Init_library /\ Init_registration /\ Init_sqlmodel
    /\ Init_sessions
    /\ serving = FALSE /\ created = FALSE /\ tables \in BOOLEAN /\ rows = <<>>
    /\ Init_videos
    /\ Init_loop
    /\ Init_sqlblog
    /\ Idle

Spec_Startup == Init_Startup /\ [][Next_Startup]_vars

\* the video service
Init_Videos == app = "Videos" /\ Services

Spec_Videos == Init_Videos /\ [][Next_Videos]_vars

\* 09-Error_Handling with its requests in progress together
Init_Loop == app = "09" /\ Services

Spec_Loop == Init_Loop /\ [][Next_Loop]_vars

\* 04-Pydantic with its requests in progress together
Init_Workers_04 == app = "04" /\ Services

Spec_Workers_04 == Init_Workers_04 /\ [][Next_Workers_04]_vars

\* 07_SQLModel with its requests in progress together
Init_Workers_07 == app = "07" /\ Services

Spec_Workers_07 == Init_Workers_07 /\ [][Next_Workers_07]_vars

\* 09-Error_Handling and 06-DB_SQLAlchemy given the same requests
Init_Both == app = "09 and 06" /\ Services

Spec_Both == Init_Both /\ [][Next_Both]_vars

\* the SQLModel blog service with its users, posts and comments
Init_SQLBlog == app = "07" /\ Services

Spec_SQLBlog == Init_SQLBlog /\ [][Next_SQLBlog]_vars

----------------------------------------------------------------------------
(* What the claims speak of *)

\* the posts the running application stores
Store == CASE app = "09" -> posts_db [] app = "06" -> posts_06 [] OTHER -> posts_04

\* the bodies that reach create_post and update_post of 09 and 06, and update_post of 04
PostCreates == {body \in CreateBodies : IsPostCreate(body)}
PostUpdates == {body \in UpdateBodies : IsPostUpdate(body)}
PostUpdates_04 == {body \in UpdateBodies_04 : IsPostUpdate_04(body)}

\* the body of PATCH that carries no field
EmptyBody == [title |-> Unset, content |-> Unset, author |-> Unset, status |-> Unset]

\* this step is a run of the named handler: the body, if any, validated
Ran(endpoint) == request'.endpoint = endpoint /\ response' # RequestValidationError

\* this step is a run of the named handler on post_id
RanOn(endpoint, post_id) == Ran(endpoint) /\ request'.post_id = post_id

\* what a handler answers is claimed of the states in which the client has a request
\* left to send

\* this step leaves every stored post, and the id the next post gets, as they were
StoreUnchanged == Store' = Store /\ counter' = counter

\* two titles are the same when compared ignoring letter case
SameTitle(a, b) == IF a = None \/ b = None THEN a = b ELSE lower(a) = lower(b)

\* C1: in 09 and 06, a stored post whose status is archived is, as long as it is
\* stored, archived after every request, whatever the body of an update_post
C1_ArchivedStaysArchived ==
    [][\A post_id \in PostIds :
          (/\ app \in {"09", "06"}
           /\ post_id \in DOMAIN Store
           /\ Store[post_id].status = ARCHIVED
           /\ post_id \in DOMAIN Store')
          => Store'[post_id].status = ARCHIVED]_vars

\* update_post run on an archived post with a body asking for draft or published is
\* answered 400 and leaves the store as it was
C2_Rejected(db, r, post_id, body) ==
    (db[post_id].status = ARCHIVED /\ body.status \in {DRAFT, PUBLISHED})
    => r.response.status_code = 400 /\ r.db = db

\* C2: in 09, 06 and 04 an update_post that asks for status draft or published on a post
\* whose stored status is archived is answered 400 and changes no field of any stored
\* post, the title and content the same body carries included
C2_LeavingArchivedIs400 ==
    /\ (CanSend /\ app = "09") => \A post_id \in DOMAIN posts_db, body \in PostUpdates :
         C2_Rejected(posts_db, update_post_09(posts_db, now, post_id, body), post_id, body)
    /\ (CanSend /\ app = "06") => \A post_id \in DOMAIN posts_06, body \in PostUpdates :
         C2_Rejected(posts_06, update_post_06(posts_06, now, post_id, body), post_id, body)
    /\ (CanSend /\ app = "04") => \A post_id \in DOMAIN posts_04, body \in PostUpdates_04 :
         C2_Rejected(posts_04, update_post_04(posts_04, post_id, body), post_id, body)

\* C3: in 09 no two posts of posts_db have the same title compared ignoring letter case
C3_TitlesUnique ==
    app = "09" =>
      \A k, j \in DOMAIN posts_db :
         k # j => ~SameTitle(posts_db[k].title, posts_db[j].title)

\* C4: in 09 and 06 create_post with a title that a stored post carries is answered 400
\* 'A post with this title already exists', adds no post and consumes no id
C4_DuplicateTitleIs400 ==
    /\ (CanSend /\ app = "09") => \A body \in PostCreates :
         (\E k \in DOMAIN posts_db : posts_db[k].title = body.title)
         => LET r == create_post_09(posts_db, counter, now, body)
            IN  /\ r.response = PostTitleExistsException
                /\ r.db = posts_db
                /\ r.counter = counter
    /\ (CanSend /\ app = "06") => \A body \in PostCreates :
         (\E k \in DOMAIN posts_06 : posts_06[k].title = body.title)
         => LET r == create_post_06(posts_06, now, body)
            IN  /\ r.response = PostTitleExistsException
                /\ r.db = posts_06
                /\ next_rowid(r.db) = next_rowid(posts_06)

\* update_post with the title, ignoring case, of another stored post is answered 400 and
\* changes nothing; update_post with nothing but the post's own title is accepted
C5_TitleChecked(db, r, post_id, body) ==
    /\ (/\ Truthy(Attr(body, "title"))
        /\ \E k \in DOMAIN db \ {post_id} : SameTitle(db[k].title, body.title))
       => r.response.status_code = 400 /\ r.db = db
    /\ body = [EmptyBody EXCEPT !.title = db[post_id].title]
       => r.response.status_code = 200

\* C5: in 09 and 06 update_post that supplies the title (ignoring case) of a different
\* stored post is answered 400 and changes nothing, and update_post that supplies the
\* post's own current title is accepted
C5_UpdateTitleChecked ==
    /\ (CanSend /\ app = "09") => \A post_id \in DOMAIN posts_db, body \in PostUpdates :
         C5_TitleChecked(posts_db, update_post_09(posts_db, now, post_id, body),
                         post_id, body)
    /\ (CanSend /\ app = "06") => \A post_id \in DOMAIN posts_06, body \in PostUpdates :
         C5_TitleChecked(posts_06, update_post_06(posts_06, now, post_id, body),
                         post_id, body)

\* C6: get_post, update_post and delete_post on an id that is not in the store are
\* answered 404 'Post not found' and change nothing: no post is created, modified or
\* removed and no view counter moves
C6_MissingPostIs404 ==
    [][\A post_id \in PostIds :
          /\ post_id \notin DOMAIN Store
          /\ \/ RanOn("get_post", post_id)
             \/ RanOn("update_post", post_id)
             \/ RanOn("delete_post", post_id)
          => response' = PostNotFoundException /\ StoreUnchanged]_vars

C6_Witness ==
    /\ request.endpoint = "update_post"
    /\ response = PostNotFoundException
    /\ request.post_id \notin DOMAIN Store
    /\ Store # <<>>

\* C7: in 09, after delete_post(id) is answered 204 that post is gone and every other
\* stored post is unchanged; an id that was given out and is gone is never stored again
\* (create_post gives out ids from `counter`, which never goes back), and every later
\* get_post, update_post or delete_post on it is answered 404
C7_DeletedStaysGone ==
    [][app = "09" =>
        \A post_id \in PostIds :
          /\ (RanOn("delete_post", post_id) /\ response'.status_code = 204)
             => /\ post_id \in DOMAIN posts_db /\ post_id < counter'
                /\ posts_db' = [k \in DOMAIN posts_db \ {post_id} |-> posts_db[k]]
          /\ (post_id < counter /\ post_id \notin DOMAIN posts_db)
             => /\ post_id \notin DOMAIN posts_db'
                /\ counter' >= counter
                /\ \A endpoint \in {"get_post", "update_post", "delete_post"} :
                     RanOn(endpoint, post_id) => response' = PostNotFoundException]_vars

C7_Witness ==
    /\ app = "09"
    /\ counter = 3
    /\ DOMAIN posts_db = {2}
    /\ request = [endpoint |-> "get_post", post_id |-> 1]
    /\ response = PostNotFoundException

\* update_post answered 200 has set the fields of PostUpdate the body carries to the
\* body's values and left everything else but updated_at
C8_Frame(db, r, post_id, body) ==
    r.response.status_code = 200
    => /\ DOMAIN r.db = DOMAIN db
       /\ \A k \in DOMAIN db \ {post_id} : r.db[k] = db[k]
       /\ DOMAIN r.db[post_id] = DOMAIN db[post_id]
       /\ \A f \in {"title", "content", "status"} :
            r.db[post_id][f] = IF body[f] # Unset THEN body[f] ELSE db[post_id][f]
       /\ \A f \in {"id", "author", "views", "created_at"} :
            r.db[post_id][f] = db[post_id][f]

C9_Created(db, r, body) ==
    /\ r.response.status_code = 201
    /\ \E id \in DOMAIN r.db \ DOMAIN db :
         /\ DOMAIN r.db = DOMAIN db \cup {id}
         /\ \A k \in DOMAIN db : r.db[k] = db[k]
         /\ r.db[id].id = id
         /\ r.db[id].title = body.title
         /\ r.db[id].content = body.content
         /\ r.db[id].author = body.author
         /\ r.db[id].status = DRAFT

\* C9: in 09 and 06 create_post with a title no stored post carries (compared ignoring
\* case), a content, an author and no status is answered 201 and adds exactly one post,
\* which carries that title, content and author, status draft and a fresh id
C9_CreateAddsDraft ==
    /\ (CanSend /\ app = "09") => \A body \in PostCreates :
         (/\ body.status = Unset
          /\ \A k \in DOMAIN posts_db : ~SameTitle(posts_db[k].title, body.title))
         => C9_Created(posts_db, create_post_09(posts_db, counter, now, body), body)
    /\ (CanSend /\ app = "06") => \A body \in PostCreates :
         (/\ body.status = Unset
          /\ \A k \in DOMAIN posts_06 : ~SameTitle(posts_06[k].title, body.title))
         => C9_Created(posts_06, create_post_06(posts_06, now, body), body)

\* C10: in 06 PATCH /posts/{post_id} of a stored post with a body that carries no field
\* is answered 422 and leaves the post as it was
C10_EmptyUpdateIs422 ==
    [][\A post_id \in PostIds :
          (post_id \in DOMAIN posts_06 /\ PATCH_post_06(post_id, EmptyBody))
          => response' = RequestValidationError /\ posts_06' = posts_06]_vars

\* C11: in 06 update_post with a body that carries an author is answered 200 and the
\* stored author of that post, which the answer shows, is the body's author
C11_UpdateSetsAuthor ==
    (CanSend /\ app = "06") =>
      \A post_id \in DOMAIN posts_06, body \in PostUpdates :
         body.author # Unset
         => LET r == update_post_06(posts_06, now, post_id, body)
            IN  /\ r.response.status_code = 200
                /\ r.db[post_id].author = body.author

\* the stored posts list_posts is to answer with: those of the status asked for, in
\* store order
Matching(db, status) ==
    IF status = None THEN values(db)
    ELSE SelectSeq(values(db), LAMBDA post : post.status = status)

\* list_posts answers 204 when no stored post has the status asked for, and else 200 with
\* the posts that have it, without the first skip of them and at most limit of them
C12_Listed(db, r, skip, limit, status) ==
    IF Matching(db, status) = <<>>
    THEN r.response.status_code = 204
    ELSE slice(Matching(db, status), skip, limit) # <<>>
         => /\ r.response.status_code = 200
            /\ r.posts = slice(Matching(db, status), skip, limit)

\* C12: in 09 and 06 list_posts(skip, limit, status) is answered 200 with the stored posts
\* whose status is the filter (all without a filter), in store order, without the first
\* skip and at most limit of them, and 204 when no post is found
C12_ListPosts ==
    [][\A skip \in Skips, limit \in Limits, status \in StatusFilters :
          /\ GET_posts_09(skip, limit, status)
             => C12_Listed(posts_db, list_posts_09(posts_db, skip, limit, status),
                           skip, limit, status)
          /\ GET_posts_06(skip, limit, status)
             => C12_Listed(posts_06, list_posts_06(posts_06, skip, limit, status),
                           skip, limit, status)]_vars

\* C13: in 09 and 06 a post's views are 0 when create_post stores it, one more after every
\* get_post on it that is answered 200, and the same after every other request; they are
\* never negative
C13_ViewsCount ==
    [][\A post_id \in PostIds :
          app \in {"09", "06"} =>
            /\ (post_id \notin DOMAIN Store /\ post_id \in DOMAIN Store')
               => Store'[post_id].views = 0
            /\ (post_id \in DOMAIN Store /\ post_id \in DOMAIN Store')
               => /\ Store'[post_id].views >= 0
                  /\ Store'[post_id].views =
                       IF RanOn("get_post", post_id) /\ response'.status_code = 200
                       THEN Store[post_id].views + 1
                       ELSE Store[post_id].views]_vars

\* the stores of the running User/Post/Comment service, and the key it files an id under
BlogStore == IF app = "Blog" THEN db_Blog ELSE fake_db
Key(id) == IF app = "Blog" THEN id ELSE str(id)

\* how often a list holds x
Count(list, x) == Cardinality({i \in DOMAIN list : list[i] = x})

\* C14: in 06-Pydantic_FastAPI_Blog and 04-Pydantic_Basics, after any create_user,
\* create_post and create_comment requests, every stored post has the id of a stored user
\* as author_id and is once in that user's posts list and in no other user's, and every
\* stored comment has the ids of a stored post and a stored user as post_id and author_id
\* and is once in that post's comments list and once in that user's comments list
C14_Linked ==
    app \in {"Blog", "Basics"} =>
      LET d == BlogStore
      IN  /\ \A pk \in DOMAIN d.posts :
               LET post == d.posts[pk]
               IN  /\ Key(post.author_id) \in DOMAIN d.users
                   /\ d.users[Key(post.author_id)].id = post.author_id
                   /\ \A uk \in DOMAIN d.users :
                        Count(d.users[uk].posts, post.id) =
                          IF uk = Key(post.author_id) THEN 1 ELSE 0
          /\ \A ck \in DOMAIN d.comments :
               LET comment == d.comments[ck]
               IN  /\ Key(comment.post_id) \in DOMAIN d.posts
                   /\ d.posts[Key(comment.post_id)].id = comment.post_id
                   /\ Key(comment.author_id) \in DOMAIN d.users
                   /\ d.users[Key(comment.author_id)].id = comment.author_id
                   /\ Count(d.posts[Key(comment.post_id)].comments, comment.id) = 1
                   /\ Count(d.users[Key(comment.author_id)].comments, comment.id) = 1

C14_Witness ==
    /\ app \in {"Blog", "Basics"}
    /\ \E ck \in DOMAIN BlogStore.comments :
         LET comment == BlogStore.comments[ck]
         IN  BlogStore.posts[Key(comment.post_id)].author_id # comment.author_id

\* the request is answered 404 and nothing is stored
C15_Rejected(d, r) == r.response.status_code = 404 /\ r.db = d

\* C15: in both services create_post for a user id that is not stored, and create_comment
\* for a post id or an author id that is not stored, are answered 404 and leave the
\* stores of users, posts and comments, with the lists in them, as they were
C15_MissingIs404 ==
    /\ (CanSend /\ app = "Blog") =>
         \A user_id \in Uuids, post_id \in Uuids :
            /\ user_id \notin DOMAIN db_Blog.users
               => \A post \in PostBodies :
                    C15_Rejected(db_Blog, create_post_Blog(db_Blog, now, user_id, post))
            /\ (post_id \notin DOMAIN db_Blog.posts \/ user_id \notin DOMAIN db_Blog.users)
               => \A comment \in CommentBodies :
                    C15_Rejected(db_Blog,
                        create_comment_Blog(db_Blog, now, post_id, user_id, comment))
    /\ (CanSend /\ app = "Basics") =>
         \A user_id \in Uuids, post_id \in Uuids :
            /\ str(user_id) \notin DOMAIN fake_users_db
               => \A post \in PostBodies :
                    C15_Rejected(fake_db,
                        create_post_Basics(fake_db, now, post, str(user_id)))
            /\ (str(post_id) \notin DOMAIN fake_posts_db
                  \/ str(user_id) \notin DOMAIN fake_users_db)
               => \A comment \in CommentBodies :
                    C15_Rejected(fake_db,
                        create_comment_Basics(fake_db, now, str(post_id), comment,
                                              str(user_id)))

C15_Witness ==
    /\ app \in {"Blog", "Basics"}
    /\ request.endpoint = "create_comment"
    /\ response.status_code = 404
    /\ request.post_id \in DOMAIN BlogStore.posts
    /\ BlogStore.comments = <<>>

\* the Library answers r, to a request at time t that found books_db and book_id_counter,
\* with the 404 of the registered handler and has left both as they were
C16_NotFound(r, t) ==
    /\ r.response.status_code = 404
    /\ r.response.content =
         create_error_response("BookNotFoundException", BookNotFoundException.detail, t)
    /\ r.db = books_db
    /\ r.counter = book_id_counter

\* C16: in the Library service get_book, update_book_status and delete_book on a book id
\* that is not in books_db are answered 404 by the registered HTTPException handler, with
\* a body of error, detail and timestamp, and leave books_db unchanged
C16_MissingBookIs404 ==
    (CanSend /\ app = "Library") =>
      \A book_id \in BookIds \ DOMAIN books_db :
         /\ C16_NotFound(get_book(books_db, book_id_counter, now, book_id), now)
         /\ \A status \in BookStatus :
              C16_NotFound(update_book_status(books_db, book_id_counter, now, book_id,
                                              status), now)
         /\ C16_NotFound(delete_book(books_db, book_id_counter, now, book_id), now)

\* the bodies that reach create_book
BookCreates == {book \in BookBodies : IsBookCreate(book)}

\* C17: in the Library service no two books in books_db share an ISBN; a create_book
\* whose ISBN a stored book carries is rejected with 400, adds nothing and leaves
\* book_id_counter, and the ISBN of a book is usable again once the book is deleted
C17_IsbnUnique ==
    app = "Library" =>
      /\ \A a \in DOMAIN books_db, b \in DOMAIN books_db :
            a # b => books_db[a].isbn # books_db[b].isbn
      /\ CanSend =>
            \A book \in BookCreates :
               isbn_exists(books_db, book.isbn) =>
                 LET r == create_book(books_db, book_id_counter, now, book)
                 IN  /\ r.response.status_code = 400
                     /\ r.db = books_db
                     /\ r.counter = book_id_counter
      /\ CanSend =>
            \A book_id \in DOMAIN books_db, book \in BookCreates :
               book.isbn = books_db[book_id].isbn =>
                 LET deleted == delete_book(books_db, book_id_counter, now, book_id)
                     r == create_book(deleted.db, deleted.counter, now + 1, book)
                 IN  /\ r.response.status_code = 201
                     /\ r.counter \in DOMAIN r.db
                     /\ r.db[r.counter].isbn = book.isbn

\* the models that reach create_user of the User Registration service
UserCreates == {UserCreate(body) : body \in {b \in RegistrationBodies : IsUserCreate(b)}}

email_registered(user) == \E i \in DOMAIN users_db : users_db[i].email = user.email
username_taken(user) == \E i \in DOMAIN users_db : users_db[i].username = user.username

\* C18: in the User Registration service no two users in users_db share an email and no
\* two share a username; a create_user that repeats a stored email or username is
\* rejected with 400, 'Email already registered' when the email repeats, 'Username
\* already taken' when only the username does, adds no user and leaves user_id_counter
C18_EmailAndUsernameUnique ==
    app = "Registration" =>
      /\ \A i \in DOMAIN users_db, j \in DOMAIN users_db :
            i # j => /\ users_db[i].email # users_db[j].email
                     /\ users_db[i].username # users_db[j].username
      /\ CanSend =>
            \A user \in UserCreates :
               LET r == create_user(users_db, user_id_counter, user)
               IN  /\ email_registered(user)
                      => r.response = HTTPException(400, "Email already registered")
                   /\ (~email_registered(user) /\ username_taken(user))
                      => r.response = HTTPException(400, "Username already taken")
                   /\ (email_registered(user) \/ username_taken(user))
                      => r.db = users_db /\ r.counter = user_id_counter

\* a create_user that repeated both a stored email and a stored username has been answered
C18_Witness ==
    /\ app = "Registration"
    /\ request.endpoint = "create_user"
    /\ IsUserCreate(request.body)
    /\ email_registered(UserCreate(request.body))
    /\ username_taken(UserCreate(request.body))
    /\ response = HTTPException(400, "Email already registered")
    /\ Len(users_db) = 2

\* C19: in the SQLModel blog service, after any create_user and update_user requests,
\* no two stored users share a username and no two share an email
C19_UsersUnique ==
    app = "07" =>
      \A a \in DOMAIN users_07, b \in DOMAIN users_07 :
         a # b => /\ users_07[a].username # users_07[b].username
                  /\ users_07[a].email # users_07[b].email

\* the sessions of the requests that have not ended
InProgress == {db_session[c] : c \in {d \in Clients : pc[d] # "idle"}}

\* C20: every session the session dependency (get_db, get_session) opens for a request
\* is closed when the request ends, whether the handler returned, raised an
\* HTTPException or failed to commit: an open session is the session of a request in
\* progress, and every session that is opened is closed
C20_SessionsClosed ==
    /\ [](open_sessions \subseteq InProgress)
    /\ \A s \in SessionIds : (s \in open_sessions) ~> (s \notin open_sessions)

\* a request whose commit failed has been answered and every session is closed
C20_Witness ==
    /\ app \in {"06", "07"}
    /\ request.endpoint \in {"update_post", "update_user"}
    /\ response = InternalServerError
    /\ \A c \in Clients : pc[c] = "idle"
    /\ open_sessions = {}
    /\ handled = MaxRequests

\* C21: in the SQLModel services that define a lifespan function, create_db_and_tables
\* has run to completion, at startup, before any request handler reads or writes the
\* database
C21_TablesCreatedAtStartup ==
    (app \in {"Heroes", "SimpleBlog", "Blog08"} /\ handled > 0) => created

\* C22: in the video service create_video stores each new video under a new id, the
\* largest existing id plus 1, whatever id the request body carries; it overwrites and
\* removes no stored video; every stored video's id is the key it is stored under, and
\* its views and likes are not negative
C22_VideosKept ==
    app = "Videos" =>
      /\ \A k \in DOMAIN videos :
            videos[k].id = k /\ videos[k].views >= 0 /\ videos[k].likes >= 0
      /\ CanSend =>
            \A video \in {v \in VideoBodies : IsVideo(v)} :
               LET r == create_video(videos, video)
                   new_id == max_key(videos) + 1
               IN  /\ new_id \notin DOMAIN videos
                   /\ DOMAIN r.db = DOMAIN videos \cup {new_id}
                   /\ \A k \in DOMAIN videos : r.db[k] = videos[k]
                   /\ r.db[new_id] = [video EXCEPT !.id = new_id]

\* create_video has stored a second new video, sent with the id of a stored one
C22_Witness ==
    /\ app = "Videos"
    /\ request = [endpoint |-> "create_video", post_id |-> 1]
    /\ response = Answer(200)
    /\ Cardinality(DOMAIN videos) = Cardinality(DOMAIN InitialVideos) + 2
    /\ videos[1] = InitialVideos[1]

\* C23: in 09-Error_Handling, however the requests in progress interleave, a create_post
\* leaves every stored post as it was, a post it creates gets an id that no post had
\* before, and the title it checked is still unused when it writes
C23_CreateUndisturbed ==
    [][\A c \in Clients :
          (/\ tasks[c].pc \in {"run", "write"}
           /\ tasks'[c] # tasks[c]
           /\ tasks[c].call.endpoint = "create_post")
          => /\ \A k \in DOMAIN posts_db :
                   k \in DOMAIN posts_db' /\ posts_db'[k] = posts_db[k]
             /\ tasks'[c].id # NoneId =>
                   /\ tasks'[c].id \notin issued
                   /\ tasks'[c].id \notin DOMAIN posts_db
                   /\ posts_db'[tasks'[c].id].id = tasks'[c].id
                   /\ check_title_exists_09(posts_db, tasks[c].call.body.title, NoneId)
                        = "False"]_vars

\* two create_post requests with the same title were in progress together; the one that
\* arrived later ran first and created the post, the other was answered 400
C23_Witness ==
    /\ app = "09"
    /\ tasks[1].pc = "done" /\ tasks[2].pc = "done"
    /\ tasks[1].call.endpoint = "create_post" /\ tasks[2].call.endpoint = "create_post"
    /\ tasks[2].n < tasks[1].n
    /\ tasks[1].response = Answer(201)
    /\ tasks[2].response = PostTitleExistsException
    /\ tasks[1].id \in DOMAIN posts_db

\* C24: in 04-Pydantic, of the create_post requests with one title that run together
\* exactly one is answered 201 and every other 400 'A post with this title already
\* exists'; none fails unhandled, and table posts never holds two rows with that title
C24_OneCreatedOthersRefused ==
    app = "04" =>
      /\ \A k, j \in DOMAIN posts_04 : posts_04[k].title = posts_04[j].title => k = j
      /\ \A c \in Clients :
            (tasks[c].pc = "done" /\ tasks[c].call.endpoint = "create_post")
            => \/ tasks[c].response = Answer(201)
               \/ /\ tasks[c].response = PostTitleExistsException
                  /\ \E k \in DOMAIN posts_04 : posts_04[k].title = tasks[c].call.body.title

\* C25: in 07_SQLModel, of two create_user requests with the same username or the same
\* email that run together at most one is stored
C25_AtMostOneStored ==
    app = "07" =>
      \A k, j \in DOMAIN users_07 :
         (\/ users_07[k].username = users_07[j].username
          \/ users_07[k].email = users_07[j].email) => k = j

\* C26: in 06 create_post and update_post answer 400 'A post with this title already
\* exists' only if a stored post (for update_post: another stored post) has the requested
\* title, compared ignoring case; a title no stored post carries is never refused as a
\* duplicate, whether or not it contains '%' or '_'
C26_RefusedOnlyIfTitleStored ==
    (CanSend /\ app = "06") =>
      /\ \A body \in PostCreates :
            create_post_06(posts_06, now, body).response = PostTitleExistsException
            => \E k \in DOMAIN posts_06 : SameTitle(posts_06[k].title, body.title)
      /\ \A post_id \in DOMAIN posts_06, body \in PostUpdates :
            update_post_06(posts_06, now, post_id, body).response = PostTitleExistsException
            => \E k \in DOMAIN posts_06 \ {post_id} :
                  SameTitle(posts_06[k].title, body.title)

\* what a client can see of a post
Observed(post) ==
    [id |-> post.id, title |-> post.title, content |-> post.content,
     author |-> post.author, status |-> post.status, views |-> post.views]

\* two answers of the same status code that leave the same posts, seen by the client
SameOutcome(r09, r06) ==
    /\ r09.response.status_code = r06.response.status_code
    /\ DOMAIN r09.db = DOMAIN r06.db
    /\ \A k \in DOMAIN r09.db : Observed(r09.db[k]) = Observed(r06.db[k])

\* C27: 09 and 06, started empty and given the same create_post, get_post, update_post and
\* delete_post requests, answer each request with the same status code and the same id,
\* title, content, author, status and views, and hold the same posts after it
C27_SameAnswers ==
    (CanSend /\ app = "09 and 06") =>
      /\ \A body \in PostCreates :
            SameOutcome(create_post_09(posts_db, counter, now, body),
                        create_post_06(posts_06, now, body))
      /\ \A post_id \in PostIds :
            /\ SameOutcome(get_post_09(posts_db, post_id),
                           get_post_06(posts_06, now, post_id))
            /\ SameOutcome(delete_post_09(posts_db, post_id),
                           delete_post_06(posts_06, post_id))
            /\ \A body \in PostUpdates :
                  SameOutcome(update_post_09(posts_db, now, post_id, body),
                              update_post_06(posts_06, now, post_id, body))

\* C28: in the User Registration service the password of a registration is kept nowhere:
\* no entry of users_db has a password field, and no answer of create_user or get_user
\* carries one
C28_PasswordNotKept ==
    app = "Registration" =>
      /\ \A i \in DOMAIN users_db : "password" \notin DOMAIN users_db[i]
      /\ CanSend =>
            /\ \A user \in UserCreates :
                  LET r == create_user(users_db, user_id_counter, user)
                  IN  /\ "password" \notin DOMAIN r.body
                      /\ \A i \in DOMAIN r.db : "password" \notin DOMAIN r.db[i]
            /\ \A user_id \in UserIds :
                  "password" \notin DOMAIN get_user(users_db, user_id_counter, user_id).body

\* create_user has registered the user of a body that carries a password
C28_Witness ==
    /\ app = "Registration"
    /\ request.endpoint = "create_user"
    /\ response = Answer(201)
    /\ users_db # <<>>
    /\ "password" \in DOMAIN request.body
    /\ users_db[Len(users_db)].username = request.body.username
    /\ users_db[Len(users_db)].id = user_id_counter - 1

\* C29: in the SQLModel blog service, after any requests to create_user, create_post,
\* create_comment, delete_post and delete_comment, every comment is on a stored post,
\* every post and every comment is by a stored user, and delete_post of a stored post
\* removes that post and its comments and nothing else
C29_NothingDangles ==
    app = "07" =>
      /\ \A c \in DOMAIN comments_07 :
            /\ comments_07[c].post_id \in DOMAIN posts_07
            /\ comments_07[c].author_id \in DOMAIN users_07
      /\ \A p \in DOMAIN posts_07 : posts_07[p].author_id \in DOMAIN users_07
      /\ CanSend =>
            \A post_id \in DOMAIN posts_07 :
               LET r == delete_post_07(Tables_07, post_id)
                   kept == {c \in DOMAIN comments_07 : comments_07[c].post_id # post_id}
               IN  /\ r.response = Answer(204)
                   /\ r.db.users = users_07
                   /\ DOMAIN r.db.posts = DOMAIN posts_07 \ {post_id}
                   /\ \A p \in DOMAIN r.db.posts : r.db.posts[p] = posts_07[p]
                   /\ DOMAIN r.db.comments = kept
                   /\ \A c \in kept : r.db.comments[c] = comments_07[c]

\* delete_post has removed the only post, which had the only comment; its author stays
C29_Witness ==
    /\ app = "07"
    /\ request = [endpoint |-> "delete_post", post_id |-> 1]
    /\ response = Answer(204)
    /\ uuids = 2
    /\ handled = 4
    /\ posts_07 = <<>> /\ comments_07 = <<>>
    /\ DOMAIN users_07 = {1}

====
